---- MODULE Spec2Model ----
(***************************************************************************)
(* ScreenAI: the turn loop of the two chat surfaces (ChatView of the main  *)
(* window, ScreenAIOverlay of the capture overlay) over the conversation   *)
(* store, and the streaming decoders of the provider connectors.           *)
(*                                                                         *)
(* Every async function is cut at its await points: one action per run of  *)
(* synchronous code between two awaits (the event loop runs such a run to  *)
(* completion).  A send is a task with a program counter.                  *)
(***************************************************************************)
EXTENDS Integers, Sequences, FiniteSets, TLC

VARIABLES
    \* ---- persistence (IndexedDB 'conversations', chrome.storage settings)
    store,               \* conversation id -> persisted message sequence
    settingsDb,          \* provider id -> [enabled, apiKey]
    \* ---- sends (one task per call of sendMessage)
    task,                \* task id -> the locals and the position of the call
    nextTask,            \* next free task id
    issued,              \* task ids whose connector.send issued a request
    \* ---- ChatView fields
    cv_conversation,     \* this.conversation (its id, or NoConv)
    cv_settings,         \* this.settings: "null" | "loaded"
    cv_isStreaming,      \* this.isStreaming
    cv_pendingScreenshot,\* this.pendingScreenshot (a capture, NoShot = null)
    cv_rendered,         \* the chat DOM (input, send button, message list) exists
    cv_input,            \* value of the rendered textarea
    cv_setq,             \* setConversation calls awaiting settingsStore.get()
    nextShot,            \* next capture id
    \* ---- ScreenAIOverlay fields
    ov_view,             \* "init" | "picker" | "chat"
    ov_settings,         \* this.settings: "null" | "loaded"
    ov_activeConvo,      \* this.activeConvo (its id, or NoConv)
    ov_isStreaming,      \* this.isStreaming
    ov_pick,             \* conversation whose conversationStore.get is awaited
    \* ---- one connector.send decoding one response body
    connector,           \* which connector class runs
    body,                \* the bytes of the response body, as the server sends them
    readPos,             \* bytes handed out by reader.read() so far
    buffer,              \* let buffer
    full,                \* let full / fullResponse
    calls,               \* the invocations of onStream, in order: [chunk, done]
    sendState,           \* "reading" | "returned" | "threw"
    cutInLine,           \* a chunk has ended inside a line
    responseOk,          \* response.ok: the HTTP status is 2xx
    result,              \* the text send resolved with
    \* ---- the capture overlays of one page
    overlay,             \* let overlay / currentOverlay: the holder, 0 is null
    overlays,            \* overlay number -> what it has in the page
    nextOverlay,         \* the number of the next overlay constructed
    \* ---- one conversation record in the 'conversations' object store
    convRecord,          \* the stored record: [title, messages]
    storeCall,           \* call number -> a running conversationStore call
    nextCall,            \* the number of the next call
    \* ---- one AnnotationCanvas
    annotations,         \* the committed shapes, in order
    pixels,              \* what is drawn on the canvas element
    currentTool,
    currentColor,
    lineWidth,
    isDrawing,
    currentPoints,       \* the number of points of the stroke under way
    imageData,           \* the surface saved at mousedown
    bgComplete,          \* bgImage.complete
    nextShape,           \* the number of the next stroke
    input,               \* the text field promptText put on the page, if any
    flattened,           \* what the toDataUrl() calls since the last other operation returned
    sets,                \* how often setColor and setLineWidth have run
    begun,               \* tool, colour and width when the gesture under way began
    lastOp,              \* the operation that ran last
    \* ---- single calls of drawShape, of a RegionSelector and of a connector
    painting,            \* two shapes and the canvas calls drawShape made for them
    selection,           \* one RegionSelector and what it reported
    request,             \* one history and the request a connector built from it
    \* ---- the ai-proxy edge function serving one user on one UTC day
    proxy_usage,         \* the user's rows of table proxy_usage of today (their number)
    handler,             \* request number -> a running call of the handler
    providerCalls,       \* fetches of a provider API made so far
    \* ---- the SyncService and the cloud tables of its user
    userId,              \* this.userId is set (signed in)
    pulling,             \* pullFromCloud is on its way to its processQueue call
    syncQueue,           \* this.syncQueue
    syncRuns,            \* the calls of processQueue that took operations
    cloudConv,           \* the conversation's rows in the cloud tables
    pushedOps,           \* every operation passed to enqueue, in order
    applied,             \* numbers of the operations the cloud has executed, in order
    failures,            \* executeSyncOp calls that failed so far
    \* ---- pullFromCloud over the local stores (IndexedDB)
    projects,            \* object store 'projects': key -> record
    conversations,       \* object store 'conversations': key -> record
    puller,              \* the running pullFromCloud call: its position and locals
    isSyncing,           \* this.isSyncing
    now,                 \* what Date.now() returns next
    nextId,              \* the number of the next generateId()
    pulls,               \* pullFromCloud calls that have returned
    afterFirst,          \* the stores as the first pull left them
    added                \* messages appended locally during the run

turnVars == <<store, settingsDb, task, nextTask, issued,
              cv_conversation, cv_settings, cv_isStreaming, cv_pendingScreenshot,
              cv_rendered, cv_input, cv_setq, nextShot,
              ov_view, ov_settings, ov_activeConvo, ov_isStreaming, ov_pick>>

cvVars == <<cv_conversation, cv_settings, cv_isStreaming, cv_pendingScreenshot,
            cv_rendered, cv_input, cv_setq, nextShot>>

ovVars == <<ov_view, ov_settings, ov_activeConvo, ov_isStreaming, ov_pick>>

decodeVars == <<connector, body, readPos, buffer, full, calls, sendState,
               cutInLine, responseOk, result>>

captureVars == <<overlay, overlays, nextOverlay>>

recordVars == <<convRecord, storeCall, nextCall>>

canvasVars == <<annotations, pixels, currentTool, currentColor, lineWidth,
               isDrawing, currentPoints, imageData, bgComplete, nextShape,
               input, flattened, sets, begun, lastOp>>

\* what the actions of one part of the program leave alone
callVars == <<painting, selection, request>>

proxyVars == <<proxy_usage, handler, providerCalls>>

syncVars == <<userId, pulling, syncQueue, syncRuns, cloudConv, pushedOps,
             applied, failures>>

pullVars == <<projects, conversations, puller, isSyncing, now, nextId, pulls,
             afterFirst, added>>

serviceVars == <<proxyVars, syncVars, pullVars>>

otherThanProxy == <<syncVars, pullVars>>
otherThanSync == <<proxyVars, pullVars>>
otherThanPull == <<proxyVars, syncVars>>

otherThanTurn == <<decodeVars, captureVars, recordVars, canvasVars, callVars, serviceVars>>
otherThanDecode == <<turnVars, captureVars, recordVars, canvasVars, callVars, serviceVars>>
otherThanCapture == <<turnVars, decodeVars, recordVars, canvasVars, callVars, serviceVars>>
otherThanRecord == <<turnVars, decodeVars, captureVars, canvasVars, callVars, serviceVars>>
otherThanCanvas == <<turnVars, decodeVars, captureVars, recordVars, callVars, serviceVars>>
otherThanCalls == <<turnVars, decodeVars, captureVars, recordVars, canvasVars, serviceVars>>
otherThanServices == <<turnVars, decodeVars, captureVars, recordVars, canvasVars, callVars>>

-----------------------------------------------------------------------------
\* Bounds of the model

\* sends (tasks) in one run
MaxSends == 2
\* fragments one provider stream delivers
MaxFrags == 2
\* captures attached to the main chat view in one run
MaxShots == 1
\* setConversation calls awaiting their settings load
MaxPendingSet == 1

-----------------------------------------------------------------------------
\* Values

NoConv == "none"
Convs == {"A", "B"}
ProviderIds == {"claude", "ollama"}
\* the provider of each stored conversation (Conversation.provider)
ConvProvider(c) == IF c = "A" THEN "claude" ELSE "ollama"

\* texts the user types; "" is the empty (trimmed) input
Texts == {"hi"}
\* the k-th text delta of a provider stream (connectors deliver only non-empty
\* deltas); the deltas of one stream differ, so order and repetition show
Fragment(k) == <<ToString(k)>>

Tasks == 1..MaxSends

\* message contents are token sequences
ConfigureApiKey(provider) == <<"configureApiKey", provider>>
ErrorText == <<"Error: ", "reason">>
OverlayErrorText == <<"X Error: ", "reason">>
DefaultOverlayText == <<"Help me with what you see on screen.">>
TextContent(x) == IF x = "" THEN <<>> ELSE <<x>>

\* Message {id (the task and role stand for generateId()), role, content, screenshot}
Message(t, role, content, shot) ==
    [turn |-> t, role |-> role, content |-> content, shot |-> shot]

\* captures: none, the n-th capture attached to the main view, the overlay's capture
NoShot == <<>>
MainShot(n) == <<"main", n>>
OverlayShot == <<"overlay">>

NoMsg == Message(0, "none", <<>>, NoShot)

IdleTask ==
    [pc |-> "idle", surface |-> "none", conv |-> NoConv, msg |-> NoMsg,
     saveConv |-> NoConv, c |-> <<>>, full |-> <<>>, frags |-> <<>>,
     nfrags |-> 0, outcome |-> "none", inputDetached |-> FALSE]

\* a call that returned or threw: its locals are gone; what stays is the record
\* of the turn (its conversation, the fragments delivered, how it ended)
Finished(tk, pc, outcome) ==
    [IdleTask EXCEPT !.pc = pc, !.surface = tk.surface, !.conv = tk.conv,
                     !.frags = tk.frags, !.nfrags = tk.nfrags, !.outcome = outcome]

-----------------------------------------------------------------------------
\* conversationStore.addMessage(id, msg): c = await this.get(id);
\* c.messages.push(msg); await db.put(c); return c

\* the copy read by get, with msg pushed
addMessage_get(id, msg) == Append(store[id], msg)

\* the store after db.put(c)
addMessage_put(id, c) == [store EXCEPT ![id] = c]

\* the first await of an addMessage call of task t resolves: the read
AddMessageGet(t) ==
    /\ task[t].pc \in {"userGet", "errGet", "aiGet"}
    /\ task' = [task EXCEPT ![t].c = addMessage_get(task[t].saveConv, task[t].msg),
                            ![t].pc = CASE task[t].pc = "userGet" -> "userPut"
                                        [] task[t].pc = "errGet" -> "errPut"
                                        [] task[t].pc = "aiGet" -> "aiPut"]
    /\ UNCHANGED <<store, settingsDb, nextTask, issued, cvVars, ovVars>>
    /\ UNCHANGED otherThanTurn

-----------------------------------------------------------------------------
\* Provider configuration checks

\* ChatView.streamAIResponse: !providerConfig?.enabled || !providerConfig?.apiKey
CvConfigMissing(cfg) == ~cfg.enabled \/ cfg.apiKey = ""

\* ScreenAIOverlay.sendMessage: !config.apiKey && provider !== 'ollama'
OvConfigMissing(provider, cfg) == cfg.apiKey = "" /\ provider # "ollama"

-----------------------------------------------------------------------------
\* ChatView

\* setConversation(conversation), up to its await of settingsStore.get()
CvSetConversation(c) ==
    /\ Len(cv_setq) < MaxPendingSet
    /\ cv_conversation' = c
    /\ cv_setq' = Append(cv_setq, c)
    /\ UNCHANGED <<store, settingsDb, task, nextTask, issued, cv_settings,
                   cv_isStreaming, cv_pendingScreenshot, cv_rendered, cv_input,
                   nextShot, ovVars>>
    /\ UNCHANGED otherThanTurn

\* a send of the main view that is between reading the textarea and resetting it
CvHoldsInput(t) ==
    task[t].surface = "main" /\ task[t].pc \in {"userGet", "userPut"}

\* setConversation after settingsStore.get() resolved: render() rebuilds the DOM
\* (a fresh textarea) when this.conversation is set, the null branch empties it
CvSettingsLoaded ==
    /\ cv_setq # <<>>
    /\ LET conversation == Head(cv_setq)
           rebuilt == conversation = NoConv \/ cv_conversation # NoConv
       IN /\ cv_rendered' = IF conversation = NoConv THEN FALSE
                            ELSE IF cv_conversation # NoConv THEN TRUE
                            ELSE cv_rendered
          /\ cv_input' = IF rebuilt THEN "" ELSE cv_input
          /\ task' = [t \in Tasks |->
                        IF rebuilt /\ CvHoldsInput(t)
                        THEN [task[t] EXCEPT !.inputDetached = TRUE]
                        ELSE task[t]]
    /\ cv_setq' = Tail(cv_setq)
    /\ cv_settings' = "loaded"
    /\ cv_pendingScreenshot' = NoShot
    /\ UNCHANGED <<store, settingsDb, nextTask, issued, cv_conversation,
                   cv_isStreaming, nextShot, ovVars>>
    /\ UNCHANGED otherThanTurn

\* the user types into the textarea
CvType(x) ==
    /\ cv_rendered
    /\ cv_input # x
    /\ cv_input' = x
    /\ UNCHANGED <<store, settingsDb, task, nextTask, issued, cv_conversation,
                   cv_settings, cv_isStreaming, cv_pendingScreenshot, cv_rendered,
                   cv_setq, nextShot, ovVars>>
    /\ UNCHANGED otherThanTurn

\* attachScreenshot(dataUrl) with a new capture
CvAttachScreenshot ==
    /\ nextShot <= MaxShots
    /\ cv_pendingScreenshot' = MainShot(nextShot)
    /\ nextShot' = nextShot + 1
    /\ UNCHANGED <<store, settingsDb, task, nextTask, issued, cv_conversation,
                   cv_settings, cv_isStreaming, cv_rendered, cv_input, cv_setq,
                   ovVars>>
    /\ UNCHANGED otherThanTurn

\* sendMessage() up to its await of conversationStore.addMessage (Enter or the
\* send button of the rendered chat)
CvSend ==
    /\ cv_rendered
    /\ nextTask <= MaxSends
    /\ ~cv_isStreaming /\ cv_conversation # NoConv
    /\ ~(cv_input = "" /\ cv_pendingScreenshot = NoShot)
    /\ LET userMsg == Message(nextTask, "user", TextContent(cv_input),
                              cv_pendingScreenshot)
       IN task' = [task EXCEPT ![nextTask] =
                     [IdleTask EXCEPT !.pc = "userGet", !.surface = "main",
                                      !.conv = cv_conversation,
                                      !.saveConv = cv_conversation,
                                      !.msg = userMsg]]
    /\ nextTask' = nextTask + 1
    /\ UNCHANGED <<store, settingsDb, issued, cvVars, ovVars>>
    /\ UNCHANGED otherThanTurn

\* sendMessage() after addMessage(userMsg) resolved, then streamAIResponse() up
\* to its first await (addMessage of the configuration message, or the fetch of
\* connector.send)
CvUserPut(t) ==
    /\ task[t].surface = "main" /\ task[t].pc = "userPut"
    /\ store' = addMessage_put(task[t].saveConv, task[t].c)
    /\ cv_conversation' = task[t].saveConv
    /\ cv_input' = IF task[t].inputDetached THEN cv_input ELSE ""
    /\ cv_pendingScreenshot' = NoShot
    /\ LET provider == ConvProvider(task[t].saveConv)
           providerConfig == settingsDb[provider]
       IN CASE cv_settings = "null" ->
                 /\ task' = [task EXCEPT ![t] = Finished(@, "done", "returned")]
                 /\ UNCHANGED <<cv_isStreaming, issued>>
            [] cv_settings # "null" /\ CvConfigMissing(providerConfig) ->
                 /\ cv_isStreaming' = TRUE
                 /\ task' = [task EXCEPT
                       ![t].pc = "errGet", ![t].outcome = "config",
                       ![t].c = <<>>, ![t].inputDetached = FALSE,
                       ![t].msg = Message(t, "assistant", ConfigureApiKey(provider), NoShot)]
                 /\ UNCHANGED issued
            [] cv_settings # "null" /\ ~CvConfigMissing(providerConfig) /\ ~cv_rendered ->
                 \* msgContainer is null: appendChild throws, after isStreaming = true
                 /\ cv_isStreaming' = TRUE
                 /\ task' = [task EXCEPT ![t] = Finished(@, "crashed", "threw")]
                 /\ UNCHANGED issued
            [] OTHER ->
                 /\ cv_isStreaming' = TRUE
                 /\ issued' = issued \cup {t}
                 /\ task' = [task EXCEPT ![t].pc = "streaming", ![t].c = <<>>,
                                         ![t].msg = NoMsg, ![t].inputDetached = FALSE]
    /\ UNCHANGED <<settingsDb, nextTask, cv_settings, cv_rendered, cv_setq,
                   nextShot, ovVars>>
    /\ UNCHANGED otherThanTurn

\* onStream(chunk, false) of streamAIResponse
CvOnStream(t) ==
    /\ task[t].surface = "main" /\ task[t].pc = "streaming"
    /\ task[t].nfrags < MaxFrags
    /\ LET chunk == Fragment(task[t].nfrags + 1)
       IN task' = [task EXCEPT ![t].full = IF chunk # <<>> THEN @ \o chunk ELSE @,
                               ![t].frags = Append(@, chunk),
                               ![t].nfrags = @ + 1]
    /\ UNCHANGED <<store, settingsDb, nextTask, issued, cvVars, ovVars>>
    /\ UNCHANGED otherThanTurn

\* streamAIResponse() from the end of connector.send (fullResponse is the text to
\* save) up to its await of addMessage(aiMsg); this.conversation.id throws on null
CvSaveResponse(t, fullResponse, outcome, delivered) ==
    /\ task' = [task EXCEPT ![t] =
          IF cv_conversation = NoConv
          THEN Finished([@ EXCEPT !.frags = delivered], "crashed", outcome)
          ELSE [@ EXCEPT !.full = fullResponse,
                         !.frags = delivered,
                         !.outcome = outcome,
                         !.pc = "aiGet",
                         !.saveConv = cv_conversation,
                         !.msg = Message(t, "assistant", fullResponse, NoShot)]]
    /\ UNCHANGED <<store, settingsDb, nextTask, issued, cvVars, ovVars>>
    /\ UNCHANGED otherThanTurn

\* the stream closes: onStream('', true), connector.send returns
CvStreamEnd(t) ==
    /\ task[t].surface = "main" /\ task[t].pc = "streaming"
    /\ CvSaveResponse(t, task[t].full, "completed", Append(task[t].frags, <<>>))

\* connector.send throws (fetch or a read fails): the catch block
CvStreamFail(t) ==
    /\ task[t].surface = "main" /\ task[t].pc = "streaming"
    /\ CvSaveResponse(t, ErrorText, "failed", task[t].frags)

\* streamAIResponse() after addMessage(errorMsg) resolved (configuration missing)
CvErrPut(t) ==
    /\ task[t].surface = "main" /\ task[t].pc = "errPut"
    /\ store' = addMessage_put(task[t].saveConv, task[t].c)
    /\ cv_conversation' = task[t].saveConv
    /\ cv_isStreaming' = FALSE
    /\ task' = [task EXCEPT ![t] = Finished(@, "done", @.outcome)]
    /\ UNCHANGED <<settingsDb, nextTask, issued, cv_settings, cv_pendingScreenshot,
                   cv_rendered, cv_input, cv_setq, nextShot, ovVars>>
    /\ UNCHANGED otherThanTurn

\* streamAIResponse() after addMessage(aiMsg) resolved
CvAiPut(t) ==
    /\ task[t].surface = "main" /\ task[t].pc = "aiPut"
    /\ store' = addMessage_put(task[t].saveConv, task[t].c)
    /\ cv_conversation' = task[t].saveConv
    /\ cv_isStreaming' = FALSE
    /\ task' = [task EXCEPT ![t] = Finished(@, "done", @.outcome)]
    /\ UNCHANGED <<settingsDb, nextTask, issued, cv_settings, cv_pendingScreenshot,
                   cv_rendered, cv_input, cv_setq, nextShot, ovVars>>
    /\ UNCHANGED otherThanTurn

-----------------------------------------------------------------------------
\* ScreenAIOverlay

\* init() after settingsStore.get() and conversationStore.getAll() resolved:
\* buildUI() shows the conversation picker (mode 'fullscreen')
OvInitDone ==
    /\ ov_view = "init"
    /\ ov_settings' = "loaded"
    /\ ov_view' = "picker"
    /\ UNCHANGED <<store, settingsDb, task, nextTask, issued, cvVars,
                   ov_activeConvo, ov_isStreaming, ov_pick>>
    /\ UNCHANGED otherThanTurn

\* click on a conversation of the picker, up to the await of conversationStore.get
OvPick(c) ==
    /\ ov_view = "picker" /\ ov_pick = NoConv
    /\ ov_pick' = c
    /\ UNCHANGED <<store, settingsDb, task, nextTask, issued, cvVars,
                   ov_view, ov_settings, ov_activeConvo, ov_isStreaming>>
    /\ UNCHANGED otherThanTurn

\* the picked conversation is read: this.activeConvo = it; showChat()
OvPickDone ==
    /\ ov_pick # NoConv
    /\ ov_activeConvo' = ov_pick
    /\ ov_view' = "chat"
    /\ ov_pick' = NoConv
    /\ UNCHANGED <<store, settingsDb, task, nextTask, issued, cvVars,
                   ov_settings, ov_isStreaming>>
    /\ UNCHANGED otherThanTurn

\* the back button of the chat panel: showConversationPicker()
OvBack ==
    /\ ov_view = "chat"
    /\ ov_view' = "picker"
    /\ UNCHANGED <<store, settingsDb, task, nextTask, issued, cvVars,
                   ov_settings, ov_activeConvo, ov_isStreaming, ov_pick>>
    /\ UNCHANGED otherThanTurn

\* send() of showChat and sendMessage(text) up to its first await; text is the
\* trimmed textarea, the capture is always attached
OvSend(text) ==
    /\ ov_view = "chat"
    /\ nextTask <= MaxSends
    /\ ~ov_isStreaming
    /\ ov_activeConvo # NoConv /\ ov_settings # "null"
    /\ LET provider == ConvProvider(ov_activeConvo)
           config == settingsDb[provider]
           userMsg == Message(nextTask, "user",
                              IF text = "" THEN DefaultOverlayText ELSE <<text>>,
                              OverlayShot)
           sent == [IdleTask EXCEPT !.surface = "overlay", !.conv = ov_activeConvo,
                                    !.saveConv = ov_activeConvo, !.msg = userMsg]
       IN task' = [task EXCEPT ![nextTask] =
                     IF OvConfigMissing(provider, config)
                     THEN \* showError(...): a DOM node only; return
                          Finished(sent, "done", "config")
                     ELSE [sent EXCEPT !.pc = "userGet"]]
    /\ nextTask' = nextTask + 1
    /\ UNCHANGED <<store, settingsDb, issued, cvVars, ovVars>>
    /\ UNCHANGED otherThanTurn

\* sendMessage() after addMessage(userMsg) resolved, up to the fetch of
\* connector.send
OvUserPut(t) ==
    /\ task[t].surface = "overlay" /\ task[t].pc = "userPut"
    /\ store' = addMessage_put(task[t].saveConv, task[t].c)
    /\ ov_activeConvo' = task[t].saveConv
    /\ ov_isStreaming' = TRUE
    /\ issued' = issued \cup {t}
    /\ task' = [task EXCEPT ![t].pc = "streaming", ![t].c = <<>>, ![t].msg = NoMsg]
    /\ UNCHANGED <<settingsDb, nextTask, cvVars, ov_view, ov_settings, ov_pick>>
    /\ UNCHANGED otherThanTurn

\* the stream callback with done = false: aiMsg.content += chunk
OvOnStream(t) ==
    /\ task[t].surface = "overlay" /\ task[t].pc = "streaming"
    /\ task[t].nfrags < MaxFrags
    /\ LET chunk == Fragment(task[t].nfrags + 1)
       IN task' = [task EXCEPT ![t].full = @ \o chunk,
                               ![t].frags = Append(@, chunk),
                               ![t].nfrags = @ + 1]
    /\ UNCHANGED <<store, settingsDb, nextTask, issued, cvVars, ovVars>>
    /\ UNCHANGED otherThanTurn

\* the stream callback with ('', true): isStreaming = false and the un-awaited
\* conversationStore.addMessage(this.activeConvo.id, aiMsg); sendMessage returns
OvStreamEnd(t) ==
    /\ task[t].surface = "overlay" /\ task[t].pc = "streaming"
    /\ ov_isStreaming' = FALSE
    /\ task' = [task EXCEPT
          ![t].frags = Append(@, <<>>),
          ![t].outcome = "completed",
          ![t].pc = "aiGet",
          ![t].saveConv = ov_activeConvo,
          ![t].msg = Message(t, "assistant", task[t].full \o <<>>, NoShot)]
    /\ UNCHANGED <<store, settingsDb, nextTask, issued, cvVars,
                   ov_view, ov_settings, ov_activeConvo, ov_pick>>
    /\ UNCHANGED otherThanTurn

\* connector.send throws: the catch block sets aiMsg.content and renders it
OvStreamFail(t) ==
    /\ task[t].surface = "overlay" /\ task[t].pc = "streaming"
    /\ ov_isStreaming' = FALSE
    /\ task' = [task EXCEPT ![t] = Finished(@, "done", "failed")]
    /\ UNCHANGED <<store, settingsDb, nextTask, issued, cvVars,
                   ov_view, ov_settings, ov_activeConvo, ov_pick>>
    /\ UNCHANGED otherThanTurn

\* the then() of the un-awaited addMessage(aiMsg): this.activeConvo = updated
OvAiPut(t) ==
    /\ task[t].surface = "overlay" /\ task[t].pc = "aiPut"
    /\ store' = addMessage_put(task[t].saveConv, task[t].c)
    /\ ov_activeConvo' = task[t].saveConv
    /\ task' = [task EXCEPT ![t] = Finished(@, "done", @.outcome)]
    /\ UNCHANGED <<settingsDb, nextTask, issued, cvVars,
                   ov_view, ov_settings, ov_isStreaming, ov_pick>>
    /\ UNCHANGED otherThanTurn

-----------------------------------------------------------------------------
\* The turn loop of both surfaces over one store

ProviderConfigs == [enabled : BOOLEAN, apiKey : {"", "key"}]

\* the settings a run starts from: every configuration of the hosted provider,
\* the local provider enabled and, as it needs none, without a key
SettingsChoices ==
    {s \in [ProviderIds -> ProviderConfigs] :
        s["ollama"] = [enabled |-> TRUE, apiKey |-> ""]}

TurnStart(settings) ==
    /\ store = [c \in Convs |-> <<>>]
    /\ settingsDb = settings
    /\ task = [t \in Tasks |-> IdleTask]
    /\ nextTask = 1
    /\ issued = {}
    /\ cv_conversation = NoConv
    /\ cv_settings = "null"
    /\ cv_isStreaming = FALSE
    /\ cv_pendingScreenshot = NoShot
    /\ cv_rendered = FALSE
    /\ cv_input = ""
    /\ cv_setq = <<>>
    /\ nextShot = 1
    /\ ov_view = "init"
    /\ ov_settings = "null"
    /\ ov_activeConvo = NoConv
    /\ ov_isStreaming = FALSE
    /\ ov_pick = NoConv

TurnInit == \E settings \in SettingsChoices : TurnStart(settings)

MainNext ==
    \/ \E t \in Tasks : AddMessageGet(t)
    \/ \E c \in Convs \cup {NoConv} : CvSetConversation(c)
    \/ CvSettingsLoaded
    \/ \E x \in Texts : CvType(x)
    \/ CvAttachScreenshot
    \/ CvSend
    \/ \E t \in Tasks : CvUserPut(t)
    \/ \E t \in Tasks : CvOnStream(t)
    \/ \E t \in Tasks : CvStreamEnd(t)
    \/ \E t \in Tasks : CvStreamFail(t)
    \/ \E t \in Tasks : CvErrPut(t)
    \/ \E t \in Tasks : CvAiPut(t)

OverlayNext ==
    \/ \E t \in Tasks : AddMessageGet(t)
    \/ OvInitDone
    \/ \E c \in Convs : OvPick(c)
    \/ OvPickDone
    \/ OvBack
    \/ \E text \in Texts \cup {""} : OvSend(text)
    \/ \E t \in Tasks : OvUserPut(t)
    \/ \E t \in Tasks : OvOnStream(t)
    \/ \E t \in Tasks : OvStreamEnd(t)
    \/ \E t \in Tasks : OvStreamFail(t)
    \/ \E t \in Tasks : OvAiPut(t)

vars == <<turnVars, decodeVars, captureVars, recordVars, canvasVars, callVars,
          serviceVars>>

\* no response is being decoded
DecodeIdle ==
    /\ connector = "none"
    /\ body = <<>>
    /\ readPos = 0
    /\ buffer = <<>>
    /\ full = <<>>
    /\ calls = <<>>
    /\ sendState = "idle"
    /\ cutInLine = FALSE
    /\ responseOk = TRUE
    /\ result = <<>>

\* capture events in one run
MaxCaptures == 3

Overlays == 1..MaxCaptures

\* an overlay number that has not been constructed yet
Unbuilt ==
    [mode |-> "none", pc |-> "unbuilt", root |-> FALSE, keydown |-> FALSE,
     selector |-> FALSE, canvas |-> FALSE, destroyed |-> FALSE]

\* no capture has happened on the page
CaptureIdle ==
    /\ overlay = 0
    /\ overlays = [o \in Overlays |-> Unbuilt]
    /\ nextOverlay = 1

\* calls of conversationStore in one run
MaxCalls == 3

StoreCalls == 1..MaxCalls

\* title: 'New conversation' of conversationStore.create
NewConversationTitle == <<"New conversation">>

NoCall ==
    [kind |-> "none", pc |-> "idle", c |-> [title |-> <<>>, messages |-> <<>>],
     content |-> <<>>, titled |-> FALSE]

\* the record conversationStore.create has put, with the title given
RecordCreated(title) ==
    /\ convRecord = [title |-> title, messages |-> <<>>]
    /\ storeCall = [k \in StoreCalls |-> NoCall]
    /\ nextCall = 1

RecordIdle == RecordCreated(NewConversationTitle)

\* a canvas element nothing has been drawn on
Blank == [bg |-> FALSE, drawn |-> <<>>]

\* no text field on the page
NoInput == [open |-> FALSE, id |-> 0, value |-> <<>>]

\* toDataUrl() has not been called
NoOutput == <<>>

\* private currentColor = '#FF3B30'
DefaultColor == "#FF3B30"

\* private lineWidth = 3
DefaultLineWidth == 3

\* no gesture is under way
NoGesture == [tool |-> "pointer", color |-> DefaultColor,
              lineWidth |-> DefaultLineWidth]

\* drawShape is not being looked at
NoPainting == painting = <<>>

\* no RegionSelector is being looked at
NoSelector == selection = <<>>

\* no connector's request is being looked at
NoRequest == request = <<>>

\* the edge function has served no request today
ProxyIdle ==
    /\ proxy_usage = 0
    /\ handler = <<>>
    /\ providerCalls = 0

\* the conversation is not in the cloud
Absent == [present |-> FALSE, v |-> 0, msgs |-> 0]

\* the SyncService after its constructor, signed out, nothing in the cloud
SyncBuilt ==
    /\ userId = FALSE
    /\ pulling = FALSE
    /\ syncQueue = <<>>
    /\ syncRuns = <<>>
    /\ cloudConv = Absent
    /\ pushedOps = <<>>
    /\ applied = <<>>
    /\ failures = 0

\* no pullFromCloud call is running
NotPulling == [pc |-> "idle", localConvs |-> <<>>, id |-> "", updated |-> <<>>]

\* no record has been stored yet
NoRecords == <<>>

\* empty local stores, no pull yet
PullIdle ==
    /\ projects = NoRecords
    /\ conversations = NoRecords
    /\ puller = NotPulling
    /\ isSyncing = FALSE
    /\ now = 0
    /\ nextId = 1
    /\ pulls = 0
    /\ afterFirst = <<>>
    /\ added = 0

\* neither the proxy nor the sync service runs
ServicesIdle == ProxyIdle /\ SyncBuilt /\ PullIdle

\* the AnnotationCanvas after its constructor
CanvasBuilt ==
    /\ annotations = <<>>
    /\ pixels = Blank
    /\ currentTool = "pointer"
    /\ currentColor = DefaultColor
    /\ lineWidth = DefaultLineWidth
    /\ isDrawing = FALSE
    /\ currentPoints = 0
    /\ imageData = Blank
    /\ bgComplete = FALSE
    /\ nextShape = 1
    /\ input = NoInput
    /\ flattened = NoOutput
    /\ sets = 0
    /\ begun = NoGesture
    /\ lastOp = "new"

Init ==
    /\ TurnInit /\ DecodeIdle /\ CaptureIdle /\ RecordIdle /\ CanvasBuilt
    /\ NoPainting /\ NoSelector /\ NoRequest /\ ServicesIdle

\* the main window's chat view over the store
Spec == Init /\ [][MainNext]_vars

\* the capture overlay over the store
SpecOverlay == Init /\ [][OverlayNext]_vars

-----------------------------------------------------------------------------
\* Reading the persisted conversations

\* positions of conversation c that hold a message of turn t with the role
MsgsOf(c, t, role) ==
    {i \in 1..Len(store[c]) : store[c][i].turn = t /\ store[c][i].role = role}

\* the persisted messages of turn t with the role, in any conversation
Persisted(t, role) ==
    {<<c, i>> \in Convs \X (1..(2 * MaxSends)) : i \in MsgsOf(c, t, role)}

\* the call of sendMessage for turn t returned or threw, and no save it
\* started is pending
TurnOver(t) == task[t].pc \in {"done", "crashed"}

\* the user message of turn t has gone through addMessage
PastUserSave(t) == task[t].pc \notin {"idle", "userGet", "userPut"}

\* the provider of the turn's conversation is disabled or has no credentials
ConfigProblem(t) ==
    LET cfg == settingsDb[ConvProvider(task[t].conv)]
    IN ~cfg.enabled \/ cfg.apiKey = ""

RECURSIVE Concat(_)
\* the concatenation of a sequence of fragments
Concat(fs) == IF fs = <<>> THEN <<>> ELSE Head(fs) \o Concat(Tail(fs))

-----------------------------------------------------------------------------
\* Claims about the turn loop

\* C1: in every send path, once a message is submitted the user message is in
\* the persisted conversation before a provider request is issued and on every
\* outcome of the turn (missing or disabled configuration, transport failure).
C1_UserMessagePersistedOnEveryOutcome ==
    \A t \in Tasks :
        (t \in issued \/ task[t].outcome # "none" \/ TurnOver(t))
            => MsgsOf(task[t].conv, t, "user") # {}

\* C2: a send whose provider configuration is disabled or lacks credentials
\* issues no provider call and ends with exactly one persisted assistant
\* message that states the configuration problem.
C2_ConfigProblemIsOneAssistantMessage ==
    \A t \in Tasks :
        (task[t].pc # "idle" /\ ConfigProblem(t)) =>
            /\ t \notin issued
            /\ TurnOver(t) =>
                 /\ Cardinality(Persisted(t, "assistant")) = 1
                 /\ \A i \in MsgsOf(task[t].conv, t, "assistant") :
                        store[task[t].conv][i].content =
                            ConfigureApiKey(ConvProvider(task[t].conv))
                 /\ MsgsOf(task[t].conv, t, "assistant") # {}

\* C3: a turn whose user message was persisted ends with exactly one persisted
\* assistant message (the answer or an error description).
C3_TurnEndsWithOneAssistantMessage ==
    \A t \in Tasks :
        (TurnOver(t) /\ Persisted(t, "user") # {})
            => Cardinality(Persisted(t, "assistant")) = 1

\* C4: when the provider stream completes normally, exactly one assistant
\* message is persisted for the turn and its text is the concatenation, in
\* callback order, of the fragments delivered to the chunk callback.
C4_CompletedStreamPersistsConcatenation ==
    \A t \in Tasks :
        (TurnOver(t) /\ task[t].outcome = "completed") =>
            /\ Cardinality(Persisted(t, "assistant")) = 1
            /\ \A c \in Convs : \A i \in MsgsOf(c, t, "assistant") :
                   store[c][i].content = Concat(task[t].frags)

\* C5: when the provider call fails after zero or more fragments, exactly one
\* assistant message describing the error is persisted (the partial text is
\* not part of it).
C5_FailedCallPersistsOneErrorMessage ==
    \A t \in Tasks :
        (TurnOver(t) /\ task[t].outcome = "failed") =>
            /\ Cardinality(Persisted(t, "assistant")) = 1
            /\ \A c \in Convs : \A i \in MsgsOf(c, t, "assistant") :
                   store[c][i].content \in {ErrorText, OverlayErrorText}

\* the sends of a surface that are between submitting and the end of their
\* provider call
Sending(surface) ==
    {t \in Tasks : task[t].surface = surface
                   /\ task[t].pc \in {"userGet", "userPut", "streaming"}}

\* C6: per chat surface at most one send is under way at a time: a send
\* triggered before an earlier one has finished (also while the user message is
\* still being written) adds no second user message and no second provider call.
C6_OneSendAtATimePerSurface ==
    \A surface \in {"main", "overlay"} : Cardinality(Sending(surface)) <= 1


\* ---------------------------------------------------------------------------
\* Streaming decoders of the connectors.
\*
\* A response body is a sequence of symbols.  A symbol stands for a run of
\* bytes that the decoders treat as a unit: the line feed, the six bytes
\* "data: ", the terminal sentinel "[DONE]", a carriage return, the braces of a
\* JSON object, the key path under which a vendor puts its text delta, the
\* "done":true member of an Ollama object, and a piece of text.  reader.read()
\* may cut the body between any two symbols.  onStream is a callback that
\* records its arguments and returns.
\* ---------------------------------------------------------------------------

MaxLines == 2

LF == "\n"
CR == "\r"
DataPrefix == "data: "
DoneSentinel == "[DONE]"

Connectors == {"claude", "openai", "gemini", "mistral", "grok", "ollama", "proxy"}

\* the key paths the decoders look a text delta up under
ClaudePath == "content_block_delta.delta.text"
OpenAIPath == "choices[0].delta.content"
GeminiPath == "candidates[0].content.parts[0].text"
OllamaPath == "message.content"
DonePath == "done:true"
\* the member of the JSON object a vendor answers a refused request with
ErrorMember == "error"
Paths == {ClaudePath, OpenAIPath, GeminiPath, OllamaPath}

\* the text carried by line number i of a body
LineText(i) == ToString(i)
TextSyms == {LineText(i) : i \in 1..(MaxLines + 1)}

\* String.prototype.split('\n'): the pieces between line feeds, the last one
\* being what follows the last line feed
RECURSIVE split(_)
split(s) ==
    IF \E i \in 1..Len(s) : s[i] = LF
    THEN LET i == CHOOSE j \in 1..Len(s) :
                      s[j] = LF /\ \A k \in 1..(j - 1) : s[k] # LF
         IN  <<SubSeq(s, 1, i - 1)>> \o split(SubSeq(s, i + 1, Len(s)))
    ELSE <<s>>

\* a faulty variant of pop: the partial line is not carried to the next read
pop_Dropped(lines) == <<>>

\* lines.pop() || '' : the last piece
pop(lines) == lines[Len(lines)]

\* the pieces that remain in lines after pop()
popped(lines) == SubSeq(lines, 1, Len(lines) - 1)

\* String.prototype.trim(): white space removed from both ends
RECURSIVE trim(_)
trim(s) ==
    IF s # <<>> /\ s[1] \in {CR, " "} THEN trim(Tail(s))
    ELSE IF s # <<>> /\ s[Len(s)] \in {CR, " "} THEN trim(SubSeq(s, 1, Len(s) - 1))
    ELSE s

startsWithData(line) == line # <<>> /\ line[1] = DataPrefix

\* line.slice(6): the line without its first six bytes
slice6(line) == Tail(line)

\* JSON.parse: white space around the value is ignored; the value is an
\* object, an opening brace, members, a closing brace; anything else throws
ParseError == [ok |-> FALSE, path |-> "", text |-> <<>>, done |-> FALSE]

JSONparse(data) ==
    LET w == trim(data)
        members == SubSeq(w, 2, Len(w) - 1)
    IN  IF /\ Len(w) >= 2
           /\ w[1] = "{"
           /\ w[Len(w)] = "}"
           /\ \A k \in 1..Len(members) : members[k] \in Paths \cup TextSyms \cup {DonePath, ErrorMember}
        THEN [ok |-> TRUE,
              path |-> IF members # <<>> /\ members[1] \in Paths
                       THEN members[1] ELSE "",
              text |-> SelectSeq(members, LAMBDA x : x \in TextSyms),
              done |-> \E k \in 1..Len(members) : members[k] = DonePath]
        ELSE ParseError

\* event.<path>, undefined (here the empty text) when the object lacks it
At(event, path) == IF event.ok /\ event.path = path THEN event.text ELSE <<>>


\* a faulty variant of emit: the fragment is delivered and not accumulated
emit_NotAccumulated(st, text) ==
    [st EXCEPT !.calls = Append(@, [chunk |-> text, done |-> FALSE])]

\* a faulty variant of finish: the final invocation is made and the loop goes on
finish_NoReturn(st) ==
    [st EXCEPT !.calls = Append(@, [chunk |-> <<>>, done |-> TRUE])]

\* what one run of send has done so far: the text accumulated, the callback
\* invocations made, and whether it has returned
\* onStream(text, false) after full += text
emit(st, text) ==
    [st EXCEPT !.full = @ \o text,
               !.calls = Append(@, [chunk |-> text, done |-> FALSE])]

\* onStream('', true); return full
finish(st) ==
    [st EXCEPT !.calls = Append(@, [chunk |-> <<>>, done |-> TRUE]),
               !.returned = TRUE]

\* the body of "for (const line of lines)" in ClaudeConnector.handleSSE
ClaudeLine(st, line) ==
    IF ~startsWithData(line) THEN st
    ELSE LET data == trim(slice6(line))
         IN  IF data = <<DoneSentinel>> THEN st
             ELSE LET event == JSONparse(data)
                  IN  IF At(event, ClaudePath) # <<>>
                      THEN emit(st, At(event, ClaudePath))
                      ELSE st

\* the same in OpenAIConnector.handleSSE
OpenAILine(st, line) ==
    IF ~startsWithData(line) THEN st
    ELSE LET data == trim(slice6(line))
         IN  IF data = <<DoneSentinel>> THEN st
             ELSE LET event == JSONparse(data)
                      delta == At(event, OpenAIPath)
                  IN  IF delta # <<>> THEN emit(st, delta) ELSE st

\* the same in GeminiConnector.send: no trim, no sentinel
GeminiLine(st, line) ==
    IF ~startsWithData(line) THEN st
    ELSE LET event == JSONparse(slice6(line))
             text == At(event, GeminiPath)
         IN  IF text # <<>> THEN emit(st, text) ELSE st

\* the same in MistralConnector.send
MistralLine(st, line) ==
    IF ~startsWithData(line) THEN st
    ELSE LET data == trim(slice6(line))
         IN  IF data = <<DoneSentinel>> THEN st
             ELSE LET event == JSONparse(data)
                      delta == At(event, OpenAIPath)
                  IN  IF delta # <<>> THEN emit(st, delta) ELSE st

\* the same in GrokConnector.handleSSE
GrokLine(st, line) ==
    IF ~startsWithData(line) THEN st
    ELSE LET data == trim(slice6(line))
         IN  IF data = <<DoneSentinel>> THEN st
             ELSE LET event == JSONparse(data)
                      delta == At(event, OpenAIPath)
                  IN  IF delta # <<>> THEN emit(st, delta) ELSE st

\* the same in OllamaConnector.send: one JSON object a line, the one with
\* done:true ends the run
OllamaLine(st, line) ==
    IF trim(line) = <<>> THEN st
    ELSE LET event == JSONparse(line)
             st1 == IF At(event, OllamaPath) # <<>>
                    THEN emit(st, At(event, OllamaPath))
                    ELSE st
         IN  IF event.ok /\ event.done THEN finish(st1) ELSE st1

\* the same in ProxyConnector.handleStream: no trim, the sentinel ends the
\* run, the Claude format and the OpenAI format are both looked up
ProxyLine(st, line) ==
    IF ~startsWithData(line) THEN st
    ELSE LET data == slice6(line)
         IN  IF data = <<DoneSentinel>> THEN finish(st)
             ELSE LET parsed == JSONparse(data)
                      st1 == IF At(parsed, ClaudePath) # <<>>
                             THEN emit(st, At(parsed, ClaudePath))
                             ELSE st
                  IN  IF At(parsed, OpenAIPath) # <<>>
                      THEN emit(st1, At(parsed, OpenAIPath))
                      ELSE st1

\* the loop body of the connector class createConnector / ProxyConnector gives
Line(k, st, line) ==
    CASE k = "claude" -> ClaudeLine(st, line)
      [] k = "openai" -> OpenAILine(st, line)
      [] k = "gemini" -> GeminiLine(st, line)
      [] k = "mistral" -> MistralLine(st, line)
      [] k = "grok" -> GrokLine(st, line)
      [] k = "ollama" -> OllamaLine(st, line)
      [] k = "proxy" -> ProxyLine(st, line)

\* for (const line of lines), left by a return
RECURSIVE forLines(_, _, _)
forLines(k, lines, st) ==
    IF lines = <<>> \/ st.returned THEN st
    ELSE forLines(k, Tail(lines), Line(k, st, Head(lines)))

\* one turn of "while (true)" for a chunk: the new [full, calls, returned, buffer]
onChunk(k, st, buf, value) ==
    LET lines == split(buf \o value)
        rest == pop(lines)
        st1 == forLines(k, popped(lines), st)
    IN  [full |-> st1.full, calls |-> st1.calls, returned |-> st1.returned,
         buffer |-> rest]


\* ---- the response bodies a run is given

\* the key paths of the wire format the connector is written for
OwnPaths(k) ==
    CASE k = "claude" -> {ClaudePath}
      [] k \in {"openai", "mistral", "grok"} -> {OpenAIPath}
      [] k = "gemini" -> {GeminiPath}
      [] k = "ollama" -> {OllamaPath}
      [] k = "proxy" -> {ClaudePath, OpenAIPath}

\* what line number i of a server-sent-events body can be: a frame with a text
\* delta, a frame of another vendor, a frame without a delta, the sentinel
\* (with a line feed or a carriage return and line feed after it), a frame cut
\* short, and the blank line between events
SSELines(k, i) ==
    {<<DataPrefix, "{", p, LineText(i), "}">> : p \in OwnPaths(k)}
    \cup {<<DataPrefix, "{", OllamaPath, LineText(i), "}">>,
          <<DataPrefix, "{", "}">>,
          <<DataPrefix, DoneSentinel>>,
          <<DataPrefix, DoneSentinel, CR>>,
          <<DataPrefix, "{", ClaudePath, LineText(i)>>,
          <<>>}

\* what line number i of a newline-delimited JSON body can be
NDJSONLines(i) ==
    {<<"{", OllamaPath, LineText(i), "}">>,
     <<"{", OllamaPath, LineText(i), "}", CR>>,
     <<"{", OllamaPath, LineText(i), DonePath, "}">>,
     <<"{", DonePath, "}">>,
     <<"{", OllamaPath, LineText(i)>>,
     <<DataPrefix, "{", OllamaPath, LineText(i), "}">>,
     <<>>}

Lines(k, i) == IF k = "ollama" THEN NDJSONLines(i) ELSE SSELines(k, i)

\* lines i..n, each with its line feed
RECURSIVE Terminated(_, _, _)
Terminated(k, i, n) ==
    IF i > n THEN {<<>>}
    ELSE {l \o <<LF>> \o r : l \in Lines(k, i), r \in Terminated(k, i + 1, n)}

\* the bodies of at most MaxLines lines; the server may close the stream
\* right after the last line, before its line feed
Bodies(k) ==
    UNION {Terminated(k, 1, n) \cup {SubSeq(b, 1, Len(b) - 1) : b \in Terminated(k, 1, n)}
           : n \in 1..MaxLines}
    \cup {<<>>}

\* the body of a response with a non-2xx status: one JSON object naming the
\* error, with or without a line feed after it
ErrorBodies == {<<"{", ErrorMember, "}">>, <<"{", ErrorMember, "}", LF>>}

\* ---- one run of send over a body

\* await fetch(...) resolves with the response; of the connectors only
\* ProxyConnector.send looks at response.ok, and throws when it is false
FetchResolves ==
    /\ sendState = "fetching"
    /\ sendState' = IF connector = "proxy" /\ ~responseOk THEN "threw" ELSE "reading"
    /\ UNCHANGED <<connector, body, readPos, buffer, full, calls, result,
                   cutInLine, responseOk, otherThanDecode>>

\* await fetch(...) rejects: no connection
FetchRejects ==
    /\ sendState = "fetching"
    /\ sendState' = "threw"
    /\ UNCHANGED <<connector, body, readPos, buffer, full, calls, result,
                   cutInLine, responseOk, otherThanDecode>>

\* reader.read() resolves with the next n symbols of the body
Read(n) ==
    /\ sendState = "reading"
    /\ n \in 1..(Len(body) - readPos)
    /\ LET value == SubSeq(body, readPos + 1, readPos + n)
           r == onChunk(connector,
                        [full |-> full, calls |-> calls, returned |-> FALSE],
                        buffer, value)
       IN  /\ readPos' = readPos + n
           /\ buffer' = r.buffer
           /\ full' = r.full
           /\ calls' = r.calls
           /\ sendState' = IF r.returned THEN "returned" ELSE "reading"
           /\ cutInLine' = (cutInLine \/ (~r.returned /\ r.buffer # <<>>))
           /\ result' = IF r.returned THEN r.full ELSE result
    /\ UNCHANGED <<connector, body, responseOk, otherThanDecode>>

\* reader.read() resolves with done: break; onStream('', true); return full
Close ==
    /\ sendState = "reading"
    /\ readPos = Len(body)
    /\ LET st == finish([full |-> full, calls |-> calls, returned |-> FALSE])
       IN  /\ calls' = st.calls
           /\ sendState' = "returned"
           /\ result' = st.full
    /\ UNCHANGED <<connector, body, readPos, buffer, full, cutInLine, responseOk,
                   otherThanDecode>>

\* reader.read() rejects: the connection broke, send rejects
ReadFails ==
    /\ sendState = "reading"
    /\ sendState' = "threw"
    /\ UNCHANGED <<connector, body, readPos, buffer, full, calls, result,
                   cutInLine, responseOk, otherThanDecode>>

\* DEFAULT_SETTINGS: every provider disabled, without a key
DEFAULT_SETTINGS == [p \in ProviderIds |-> [enabled |-> FALSE, apiKey |-> ""]]

DecodeInit ==
    /\ TurnStart(DEFAULT_SETTINGS)
    /\ connector \in Connectors
    /\ responseOk \in BOOLEAN
    /\ body \in IF responseOk THEN Bodies(connector) ELSE ErrorBodies
    /\ readPos = 0
    /\ buffer = <<>>
    /\ full = <<>>
    /\ calls = <<>>
    /\ sendState = "fetching"
    /\ cutInLine = FALSE
    /\ result = <<>>
    /\ CaptureIdle
    /\ RecordIdle
    /\ CanvasBuilt /\ NoPainting /\ NoSelector /\ NoRequest /\ ServicesIdle

DecodeNext ==
    \/ FetchResolves
    \/ FetchRejects
    \/ \E n \in 1..Len(body) : Read(n)
    \/ Close
    \/ ReadFails

\* every connector over every body, cut into chunks in every way
SpecDecode == DecodeInit /\ [][DecodeNext]_vars


-----------------------------------------------------------------------------
\* Claims about the streaming decoders

\* a run that has done nothing yet
Start == [full |-> <<>>, calls |-> <<>>, returned |-> FALSE]

\* the fragments of the non-final callback invocations, in order
NonFinalChunks ==
    LET nf == SelectSeq(calls, LAMBDA c : ~c.done)
    IN  [i \in 1..Len(nf) |-> nf[i].chunk]

\* send over body b handed out by reader.read() in one chunk
sendWhole(k, b) ==
    IF b = <<>> THEN finish(Start)
    ELSE LET r == onChunk(k, Start, <<>>, b)
         IN  IF r.returned THEN r
             ELSE finish([full |-> r.full, calls |-> r.calls, returned |-> FALSE])

\* C7: for every connector and every response stream that closes, the callback
\* is invoked with isFinal = true exactly once, as the last invocation, with
\* the empty fragment; while the stream is read no final invocation is made.
C7_FinalCallbackOnceLastAndEmpty ==
    /\ sendState = "reading" => \A i \in 1..Len(calls) : ~calls[i].done
    /\ sendState = "returned" =>
           /\ calls # <<>>
           /\ calls[Len(calls)] = [chunk |-> <<>>, done |-> TRUE]
           /\ \A i \in 1..(Len(calls) - 1) : ~calls[i].done

\* C7 happens: an Ollama run has returned on the object with done:true after
\* delivering a fragment, with bytes of the body still unread
C7_Witness_ReturnedOnDoneObject ==
    /\ sendState = "returned"
    /\ connector = "ollama"
    /\ readPos < Len(body)
    /\ Len(calls) >= 2

\* C8: the text a connector returns from a streamed response is the
\* concatenation, in order, of the non-final fragments it delivered.
C8_ReturnedTextIsConcatenationOfFragments ==
    sendState = "returned" => result = Concat(NonFinalChunks)

\* C8 happens: a proxy run has returned after delivering two fragments
C8_Witness_ReturnedTwoFragments ==
    /\ sendState = "returned"
    /\ connector = "proxy"
    /\ Len(NonFinalChunks) = 2
    /\ result # <<>>

\* C9: the fragments delivered and the text returned depend only on the bytes
\* of the response body, not on how the transport cut them into chunks.
C9_OutputIndependentOfChunking ==
    sendState = "returned" =>
        /\ calls = sendWhole(connector, body).calls
        /\ result = sendWhole(connector, body).full

\* C9 happens: a run has returned text from a body of which a chunk ended
\* inside a line
C9_Witness_ReturnedAfterCutInLine ==
    /\ sendState = "returned"
    /\ cutInLine
    /\ result # <<>>

\* C10: every well-formed frame of the response body contributes its text
\* delta to the returned text exactly once, the last frame included when the
\* stream closes before a line feed follows it: the returned text is what the
\* loop body yields over all the lines of the body, the last one included.
C10_EveryFrameContributesOnce ==
    sendState = "returned" =>
        result = forLines(connector, split(body), Start).full


\* the lines of the body, the one after the last line feed included
BodyLines == split(body)

\* line is a payload line for connector k: a data line of an event stream, a
\* non-blank line of a newline-delimited JSON body
IsPayload(k, line) ==
    IF k = "ollama" THEN trim(line) # <<>> ELSE startsWithData(line)

\* the payload of a payload line
Payload(k, line) == IF k = "ollama" THEN line ELSE slice6(line)

\* line carries the terminal marker of its framing family
IsTerminal(k, line) ==
    /\ IsPayload(k, line)
    /\ IF k = "ollama"
       THEN JSONparse(line).ok /\ JSONparse(line).done
       ELSE trim(slice6(line)) = <<DoneSentinel>>

\* the text delta connector k finds in a payload line, empty when the payload
\* is no JSON object or has no delta under the connector's paths
DeltaOf(k, line) ==
    LET event == JSONparse(Payload(k, line))
    IN  IF IsPayload(k, line) /\ event.ok /\ event.path \in OwnPaths(k)
        THEN event.text ELSE <<>>

\* a payload line that is not valid JSON, or has no text delta
IsMalformed(k, line) ==
    IsPayload(k, line) /\ ~IsTerminal(k, line) /\ DeltaOf(k, line) = <<>>

\* some callback invocation delivered the fragment
Delivered(text) == \E c \in 1..Len(calls) : calls[c] = [chunk |-> text, done |-> FALSE]

\* C11: a malformed frame is skipped without an error or a callback
\* invocation, and every well-formed frame after it in the same stream (no
\* terminal marker in between) is still decoded and delivered once the stream
\* has closed.
C11_MalformedFrameSkippedLaterFramesDelivered ==
    sendState = "returned" /\ readPos = Len(body) =>
        \A i \in 1..Len(BodyLines) :
            IsMalformed(connector, BodyLines[i]) =>
                /\ ~Delivered(<<LineText(i)>>)
                /\ \A j \in (i + 1)..Len(BodyLines) :
                       (/\ DeltaOf(connector, BodyLines[j]) # <<>>
                        /\ \A h \in 1..(j - 1) : ~IsTerminal(connector, BodyLines[h]))
                           => Delivered(DeltaOf(connector, BodyLines[j]))

\* C12: a failed provider call is told apart from an empty answer: when the
\* provider answers with a non-2xx status, send does not complete normally.
C12_NonOkResponseRaisesError ==
    ~responseOk => sendState # "returned"

\* C13: in both framing families, once the terminal marker (the sentinel
\* "[DONE]", or an object with done = true) has been decoded, no further
\* non-final fragment is delivered: no fragment of a line that follows a
\* terminal line of the body reaches the callback.
C13_NoFragmentAfterTerminalMarker ==
    \A j \in 1..Len(BodyLines) :
        (\E h \in 1..(j - 1) : IsTerminal(connector, BodyLines[h]))
            => ~Delivered(<<LineText(j)>>)

-----------------------------------------------------------------------------
\* The capture overlays of one page: the content script's (and the desktop
\* shell's) capture listener, ScreenAIOverlay's constructor, init, buildUI,
\* buildCanvas and destroy, and RegionSelector.
\*
\* Of an overlay the model keeps what it has put in the page: its root element
\* (root), its document keydown listener (keydown), its region selector with
\* the selector's own keydown listener (selector), its annotation canvas
\* (canvas); pc is the asynchronous step the overlay is waiting for.

\* ScreenAIOverlay.destroy(): removeEventListener, annotationCanvas?.destroy(),
\* root.remove(); onClose then sets the holder to null
destroy(r) ==
    [r EXCEPT !.keydown = FALSE, !.canvas = FALSE, !.root = FALSE,
              !.destroyed = TRUE]

\* a capture event (SCREENAI_CAPTURE, the keyboard fallback, 'capture'):
\* if (overlay) overlay.destroy(); overlay = new ScreenAIOverlay(dataUrl, mode);
\* the constructor appends the root and starts init()
Capture(mode) ==
    /\ nextOverlay <= MaxCaptures
    /\ LET old == IF overlay # 0
                  THEN [overlays EXCEPT ![overlay] = destroy(@)]
                  ELSE overlays
       IN  overlays' = [old EXCEPT ![nextOverlay] =
                           [Unbuilt EXCEPT !.mode = mode, !.pc = "init", !.root = TRUE]]
    /\ overlay' = nextOverlay
    /\ nextOverlay' = nextOverlay + 1
    /\ UNCHANGED otherThanCapture

\* buildUI(): registers handleKeydown on document, buildCanvas starts the load
\* of the image
buildUI(r) == [r EXCEPT !.keydown = TRUE, !.pc = "loading"]

\* init() after its awaits (settingsStore.get, conversationStore.getAll): a
\* RegionSelector in region mode, buildUI otherwise
InitLoaded(o) ==
    /\ overlays[o].pc = "init"
    /\ overlays' = [overlays EXCEPT ![o] =
                       IF @.mode = "region"
                       THEN [@ EXCEPT !.selector = TRUE, !.pc = "selecting"]
                       ELSE buildUI(@)]
    /\ UNCHANGED <<overlay, nextOverlay, otherThanCapture>>

\* the selector that receives the mouse: the one appended last
TopSelector(o) ==
    overlays[o].selector /\ \A q \in Overlays : overlays[q].selector => q <= o

\* mouseup over a region wider and higher than 20 pixels: the selector destroys
\* itself and calls onSelect, which awaits cropScreenshot
RegionSelected(o) ==
    /\ TopSelector(o)
    /\ overlays' = [overlays EXCEPT ![o] = [@ EXCEPT !.selector = FALSE, !.pc = "cropping"]]
    /\ UNCHANGED <<overlay, nextOverlay, otherThanCapture>>

\* cropScreenshot resolves: this.currentScreenshot = ...; this.buildUI()
CropDone(o) ==
    /\ overlays[o].pc = "cropping"
    /\ overlays' = [overlays EXCEPT ![o] = buildUI(@)]
    /\ UNCHANGED <<overlay, nextOverlay, otherThanCapture>>

\* img.onload of buildCanvas: this.annotationCanvas = new AnnotationCanvas(...)
ImageLoaded(o) ==
    /\ overlays[o].pc = "loading"
    /\ overlays' = [overlays EXCEPT ![o] = [@ EXCEPT !.canvas = TRUE, !.pc = "ready"]]
    /\ UNCHANGED <<overlay, nextOverlay, otherThanCapture>>

\* an overlay has a keydown listener on document: its own or its selector's
Listens(o) == overlays[o].keydown \/ overlays[o].selector

\* what the Escape key does to an overlay that listens: its selector, if
\* open, destroys itself and calls onCancel; either way destroy() runs
onEscape(r) ==
    destroy([r EXCEPT !.selector = FALSE,
                      !.pc = IF r.selector THEN "ready" ELSE r.pc])

\* Escape is pressed: every keydown listener on document runs; each calls
\* destroy() on its overlay, and each destroy() calls onClose
Escape ==
    /\ \E o \in Overlays : Listens(o)
    /\ overlays' = [o \in Overlays |->
                       IF Listens(o) THEN onEscape(overlays[o]) ELSE overlays[o]]
    /\ overlay' = 0
    /\ UNCHANGED <<nextOverlay, otherThanCapture>>

CaptureInit ==
    /\ TurnStart(DEFAULT_SETTINGS) /\ DecodeIdle /\ CaptureIdle /\ RecordIdle
    /\ CanvasBuilt /\ NoPainting /\ NoSelector /\ NoRequest /\ ServicesIdle

CaptureNext ==
    \/ \E mode \in {"fullscreen", "region"} : Capture(mode)
    \/ \E o \in Overlays : InitLoaded(o)
    \/ \E o \in Overlays : RegionSelected(o)
    \/ \E o \in Overlays : CropDone(o)
    \/ \E o \in Overlays : ImageLoaded(o)
    \/ Escape

\* capture events, region selections, Escape presses and the completion of the
\* overlays' asynchronous steps in every order
SpecCapture == CaptureInit /\ [][CaptureNext]_vars

\* the overlays that are in the page
Live == {o \in Overlays : overlays[o].root}

\* C14: at any time at most one capture overlay is live in the page, and the
\* holder variable refers to the live overlay if there is one.
C14_OneLiveOverlayHeldByHolder ==
    /\ Cardinality(Live) <= 1
    /\ \A o \in Live : overlay = o

\* C15: after destroy() of an overlay has returned, no document keydown
\* listener, region selector or annotation canvas of that overlay is
\* registered, and its pending asynchronous steps create none.
C15_DestroyedOverlayLeavesNothing ==
    \A o \in Overlays :
        overlays[o].destroyed =>
            ~overlays[o].keydown /\ ~overlays[o].selector /\ ~overlays[o].canvas

-----------------------------------------------------------------------------
\* Claims about the stored conversations

\* a is a prefix of b
IsPrefix(a, b) == Len(a) <= Len(b) /\ SubSeq(b, 1, Len(a)) = a

\* C16: the persisted message sequence of a conversation only grows by
\* appending: in every step the sequence before the step is a prefix of the
\* sequence after it (no message is removed, replaced or reordered).
C16_MessagesOnlyAppended ==
    [][\A c \in Convs : IsPrefix(store[c], store'[c])]_vars

-----------------------------------------------------------------------------
\* One conversation record under conversationStore.addMessage and
\* conversationStore.update, each a get and a later put.
\*
\* A text is a sequence of UTF-16 code units, what String.length counts and
\* String.slice cuts; the code units of the text of call k are all k.

\* the 60 of msg.content.slice(0, 60)
TitleLimit == 60

\* code units by which a text may exceed TitleLimit
MaxOver == 1

\* the ellipsis character appended to a cut title
Ellipsis == "ellipsis"

\* the title typed into the new-conversation or the rename dialog
TypedTitle == <<"typed">>

Text(k, n) == [i \in 1..n |-> ToString(k)]

TextLens == {0, 1, TitleLimit} \cup {TitleLimit + d : d \in 1..MaxOver}

\* String.prototype.slice(0, end)
slice0(t, end) == SubSeq(t, 1, IF Len(t) < end THEN Len(t) ELSE end)

\* a faulty variant of titleOf: the cut title gets no ellipsis
titleOf_NoEllipsis(content) == slice0(content, TitleLimit)

\* msg.content.slice(0, 60) + (msg.content.length > 60 ? ellipsis : '')
titleOf(content) ==
    slice0(content, TitleLimit)
        \o (IF Len(content) > TitleLimit THEN <<Ellipsis>> ELSE <<>>)

\* the condition under which addMessage sets the title: msg is the only user
\* message of the copy after the push, and its content is not empty
setsTitle(c, msg) ==
    /\ Len(SelectSeq(Append(c.messages, msg), LAMBDA m : m.role = "user")) = 1
    /\ msg.role = "user"
    /\ msg.content # <<>>

\* addMessage between get and put: c.messages.push(msg); the title
addMessage_copy(c, msg) ==
    [title |-> IF setsTitle(c, msg) THEN titleOf(msg.content) ELSE c.title,
     messages |-> Append(c.messages, msg)]

\* conversationStore.addMessage(id, msg) up to db.put: get resolves, the copy
\* is changed
RecAddMessageGet(role, n) ==
    /\ nextCall <= MaxCalls
    /\ role = "assistant" => n = 1
    /\ LET msg == [role |-> role, content |-> Text(nextCall, n)]
       IN  storeCall' = [storeCall EXCEPT ![nextCall] =
                            [kind |-> "addMessage", pc |-> "put",
                             c |-> addMessage_copy(convRecord, msg),
                             content |-> msg.content,
                             titled |-> setsTitle(convRecord, msg)]]
    /\ nextCall' = nextCall + 1
    /\ UNCHANGED <<convRecord, otherThanRecord>>

\* conversationStore.update(id, {title}) up to db.put: {...c, ...updates}
RecUpdateGet ==
    /\ nextCall <= MaxCalls
    /\ storeCall' = [storeCall EXCEPT ![nextCall] =
                        [kind |-> "update", pc |-> "put",
                         c |-> [convRecord EXCEPT !.title = TypedTitle],
                         content |-> <<>>, titled |-> FALSE]]
    /\ nextCall' = nextCall + 1
    /\ UNCHANGED <<convRecord, otherThanRecord>>

\* db.put(STORE_CONVERSATIONS, c) of either call
RecPut(k) ==
    /\ storeCall[k].pc = "put"
    /\ convRecord' = storeCall[k].c
    /\ storeCall' = [storeCall EXCEPT ![k] = [NoCall EXCEPT !.kind = storeCall[k].kind,
                                                         !.pc = "done"]]
    /\ UNCHANGED <<nextCall, otherThanRecord>>

\* createNewConversation: create, and update when a title was typed
RecordInit ==
    /\ TurnStart(DEFAULT_SETTINGS) /\ DecodeIdle /\ CaptureIdle /\ CanvasBuilt
    /\ NoPainting /\ NoSelector /\ NoRequest /\ ServicesIdle
    /\ \E title \in {NewConversationTitle, TypedTitle} : RecordCreated(title)

RecordNext ==
    \/ \E role \in {"user", "assistant"} : \E n \in TextLens : RecAddMessageGet(role, n)
    \/ RecUpdateGet
    \/ \E k \in StoreCalls : RecPut(k)

\* the store calls on one conversation in every order
SpecRecord == RecordInit /\ [][RecordNext]_vars

\* the user-authored texts of the stored conversation, in order
UserTexts(c) ==
    LET us == SelectSeq(c.messages, LAMBDA m : m.role = "user" /\ m.content # <<>>)
    IN  [i \in 1..Len(us) |-> us[i].content]

\* C17: the title of a conversation is set once, from the first user-authored
\* text, and is not overwritten afterwards: a title the conversation has been
\* given (anything but the placeholder of create) is not changed by a step,
\* and a conversation without one takes it from its first user-authored text.
C17_TitleSetOnceNeverOverwritten ==
    [][/\ convRecord.title # NewConversationTitle
           => convRecord'.title = convRecord.title
       /\ (convRecord.title = NewConversationTitle /\ UserTexts(convRecord') # <<>>)
           => convRecord'.title = titleOf(UserTexts(convRecord')[1])]_vars

\* C18: the title derived from a user text t is t itself when t has at most 60
\* characters, and otherwise the first 60 characters of t followed by one
\* ellipsis; a derived title never exceeds 61 characters.
C18_DerivedTitleCutAtSixty ==
    \A k \in StoreCalls :
        (storeCall[k].pc = "put" /\ storeCall[k].titled) =>
            LET t == storeCall[k].content
                title == storeCall[k].c.title
            IN  /\ Len(t) <= TitleLimit => title = t
                /\ Len(t) > TitleLimit =>
                       /\ Len(title) = TitleLimit + 1
                       /\ SubSeq(title, 1, TitleLimit) = SubSeq(t, 1, TitleLimit)
                       /\ title[TitleLimit + 1] = Ellipsis
                /\ Len(title) <= TitleLimit + 1

\* C18 happens: the stored conversation has a title that addMessage cut from a
\* text longer than 60 characters
C18_Witness_StoredCutTitle ==
    /\ Len(convRecord.title) = TitleLimit + 1
    /\ convRecord.title[TitleLimit + 1] = Ellipsis
    /\ Len(UserTexts(convRecord)) >= 1
    /\ Len(UserTexts(convRecord)[1]) > TitleLimit

-----------------------------------------------------------------------------
\* Claims about captures in messages

\* the turns whose user message, persisted or being sent, carries capture shot
CarriedBy(shot) ==
    {t \in Tasks : \/ task[t].msg.role = "user" /\ task[t].msg.shot = shot
                   \/ \E c \in Convs : \E i \in MsgsOf(c, t, "user") :
                          store[c][i].shot = shot}

\* the captures of the run
Shots == {OverlayShot} \cup {MainShot(n) : n \in 1..MaxShots}

\* C19: each captured screenshot is attached to exactly one user message: no
\* two sends of a chat surface or overlay session carry the same capture.
C19_CaptureAttachedToOneMessage ==
    \A shot \in Shots : Cardinality(CarriedBy(shot)) <= 1

-----------------------------------------------------------------------------
\* One AnnotationCanvas: the committed shapes (annotations) and what is drawn
\* on the canvas element (pixels): whether the background image is on it, and
\* the shapes drawn over it since the last clearRect, in drawing order.
\* A shape is [type, id, points, color, lineWidth, text]: its tool, the number
\* of the gesture that made it, how many points it has, its colour and width,
\* and its text (NoText when the shape has none).

\* strokes started in one run
MaxShapes == 2

\* mousemove events of one stroke
MaxMoves == 1

\* calls of setColor and setLineWidth in one run
MaxSets == 1

\* toDataUrl() calls in a row
MaxFlattens == 2

DrawingTools == {"rectangle", "freehand"}

\* the tools the event handlers tell apart: the pointer, the text tool and a
\* drawing tool (the handlers treat arrow, rectangle, highlight and freehand
\* alike)
Tools == {"pointer", "text", "rectangle"}

\* Annotation['type']
Kinds == {"arrow", "rectangle", "highlight", "freehand", "text"}

\* the kinds drawn from their first and last point
TwoPointKinds == {"arrow", "rectangle", "highlight"}

\* two of the toolbar's colours
Colors == {DefaultColor, "#007AFF"}

LineWidths == {DefaultLineWidth, 5}

\* a shape without the text member
NoText == <<>>

\* what the user can type into the text field
InputValues == {<<" ">>, <<" ", "a", " ">>}

\* drawShape(...): a rectangle, highlight, arrow or freehand line of fewer
\* than two points draws nothing, and neither does a text shape without text
drawShape(px, shape) ==
    IF shape.type = "text"
    THEN IF shape.text = NoText \/ shape.points < 1 THEN px
         ELSE [px EXCEPT !.drawn = Append(@, shape)]
    ELSE IF shape.points < 2 THEN px
         ELSE [px EXCEPT !.drawn = Append(@, shape)]

RECURSIVE drawAll(_, _)
\* for (const ann of this.annotations) this.drawShape(...)
drawAll(px, log) ==
    IF log = <<>> THEN px ELSE drawAll(drawShape(px, Head(log)), Tail(log))

\* redraw(): clearRect, the background image if it is complete, the shapes
redraw(log, complete) == drawAll([bg |-> complete, drawn |-> <<>>], log)

\* a faulty variant of afterPop: the oldest shape is removed
afterPop_First(log) == IF log = <<>> THEN <<>> ELSE Tail(log)

\* this.annotations after this.annotations.pop()
afterPop(log) == IF log = <<>> THEN <<>> ELSE SubSeq(log, 1, Len(log) - 1)

\* a faulty variant of pushed: the point is not added
pushed_Nothing(n) == n

\* this.currentPoints after this.currentPoints.push({ x, y })
pushed(n) == n + 1

\* canvas.toDataURL('image/png'): the PNG of what is on the canvas
toDataURL(px) == <<"data:image/png", px.bg, px.drawn>>

\* commit() of promptText: the log after it, for the text field inp
commit(log, inp, color, width) ==
    IF trim(inp.value) # <<>>
    THEN Append(log, [type |-> "text", id |-> inp.id, points |-> 1,
                      color |-> color, lineWidth |-> width,
                      text |-> trim(inp.value)])
    ELSE log

\* input.remove() on the focused text field: a browser that sends blur to a
\* focused element taken off the page runs commit() once more
removed(log, inp, color, width, blurs) ==
    IF blurs THEN commit(log, inp, color, width) ELSE log

\* bgImage.onload: redraw()
BgLoaded ==
    /\ ~bgComplete
    /\ bgComplete' = TRUE
    /\ pixels' = redraw(annotations, TRUE)
    /\ lastOp' = "bgload"
    /\ flattened' = NoOutput
    /\ UNCHANGED <<annotations, currentTool, currentColor, lineWidth, isDrawing,
                   currentPoints, imageData, nextShape, input, begun,
                   sets, otherThanCanvas>>

\* setTool(tool)
SetTool(tool) ==
    /\ currentTool # tool
    /\ currentTool' = tool
    /\ lastOp' = "setTool"
    /\ flattened' = NoOutput
    /\ UNCHANGED <<annotations, pixels, currentColor, lineWidth, isDrawing,
                   currentPoints, imageData, bgComplete, nextShape, input,
                   begun, sets, otherThanCanvas>>

\* a faulty variant of SetColor: the last committed shape takes the colour too
SetColor_Recolouring(color) ==
    /\ sets < MaxSets
    /\ sets' = sets + 1
    /\ currentColor # color
    /\ currentColor' = color
    /\ annotations' = [i \in 1..Len(annotations) |->
                          IF i = Len(annotations)
                          THEN [annotations[i] EXCEPT !.color = color]
                          ELSE annotations[i]]
    /\ lastOp' = "setColor"
    /\ flattened' = NoOutput
    /\ UNCHANGED <<pixels, currentTool, lineWidth, isDrawing, currentPoints,
                   imageData, bgComplete, nextShape, input, begun,
                   otherThanCanvas>>

\* setColor(color)
SetColor(color) ==
    /\ currentColor # color
    /\ sets < MaxSets
    /\ sets' = sets + 1
    /\ currentColor' = color
    /\ lastOp' = "setColor"
    /\ flattened' = NoOutput
    /\ UNCHANGED <<annotations, pixels, currentTool, lineWidth, isDrawing,
                   currentPoints, imageData, bgComplete, nextShape, input,
                   begun, otherThanCanvas>>

\* setLineWidth(w)
SetLineWidth(w) ==
    /\ lineWidth # w
    /\ sets < MaxSets
    /\ sets' = sets + 1
    /\ lineWidth' = w
    /\ lastOp' = "setLineWidth"
    /\ flattened' = NoOutput
    /\ UNCHANGED <<annotations, pixels, currentTool, currentColor, isDrawing,
                   currentPoints, imageData, bgComplete, nextShape, input,
                   begun, otherThanCanvas>>

\* mousedown: the stroke starts and the surface is saved (a stroke whose
\* mouseup never reached the canvas is still open here); with the text tool no
\* stroke is captured and promptText puts a focused text field on the page.
\* A text field that had the focus loses it and commits.
MouseDown ==
    /\ currentTool # "pointer"
    /\ nextShape <= MaxShapes
    /\ isDrawing' = (currentTool # "text")
    /\ currentPoints' = 1
    /\ imageData' = pixels
    /\ nextShape' = nextShape + 1
    /\ begun' = [tool |-> currentTool, color |-> currentColor,
                 lineWidth |-> lineWidth]
    /\ input' = IF currentTool = "text"
                THEN [open |-> TRUE, id |-> nextShape, value |-> <<>>]
                ELSE NoInput
    /\ annotations' = IF input.open
                      THEN commit(annotations, input, currentColor, lineWidth)
                      ELSE annotations
    /\ pixels' = IF annotations' # annotations
                 THEN redraw(annotations', bgComplete) ELSE pixels
    /\ lastOp' = "mousedown"
    /\ flattened' = NoOutput
    /\ UNCHANGED <<currentTool, currentColor, lineWidth, bgComplete, sets, otherThanCanvas>>

\* mousemove while drawing: the saved surface is put back and the stroke so
\* far is drawn over it
MouseMove ==
    /\ isDrawing /\ currentTool # "pointer"
    /\ currentPoints <= MaxMoves
    /\ currentPoints' = pushed(currentPoints)
    /\ pixels' = drawShape(imageData,
                           [type |-> currentTool, id |-> nextShape - 1,
                            points |-> currentPoints', color |-> currentColor,
                            lineWidth |-> lineWidth, text |-> NoText])
    /\ lastOp' = "mousemove"
    /\ flattened' = NoOutput
    /\ UNCHANGED <<annotations, currentTool, currentColor, lineWidth, isDrawing,
                   imageData, bgComplete, nextShape, input, begun,
                   sets, otherThanCanvas>>

\* mouseup while drawing: the shape is committed, redraw()
MouseUp ==
    /\ isDrawing /\ currentTool # "pointer"
    /\ isDrawing' = FALSE
    /\ currentPoints' = pushed(currentPoints)
    /\ annotations' = Append(annotations,
                             [type |-> currentTool, id |-> nextShape - 1,
                              points |-> currentPoints', color |-> currentColor,
                              lineWidth |-> lineWidth, text |-> NoText])
    /\ pixels' = redraw(annotations', bgComplete)
    /\ begun' = NoGesture
    /\ lastOp' = "mouseup"
    /\ flattened' = NoOutput
    /\ UNCHANGED <<currentTool, currentColor, lineWidth, imageData, bgComplete,
                   nextShape, input, sets, otherThanCanvas>>

\* the user types into the text field
TypeText(value) ==
    /\ input.open
    /\ input.value = <<>>
    /\ input' = [input EXCEPT !.value = value]
    /\ lastOp' = "type"
    /\ flattened' = NoOutput
    /\ UNCHANGED <<annotations, pixels, currentTool, currentColor, lineWidth,
                   isDrawing, currentPoints, imageData, bgComplete, nextShape,
                   begun, sets, otherThanCanvas>>

\* keydown Enter in the text field: commit(), whose input.remove() takes the
\* focused field off the page
EnterKey(blurs) ==
    /\ input.open
    /\ annotations' = removed(commit(annotations, input, currentColor, lineWidth),
                              input, currentColor, lineWidth, blurs)
    /\ pixels' = IF annotations' # annotations
                 THEN redraw(annotations', bgComplete) ELSE pixels
    /\ input' = NoInput
    /\ begun' = NoGesture
    /\ lastOp' = "enter"
    /\ flattened' = NoOutput
    /\ UNCHANGED <<currentTool, currentColor, lineWidth, isDrawing, currentPoints,
                   imageData, bgComplete, nextShape, sets, otherThanCanvas>>

\* keydown Escape in the text field: input.remove()
EscapeKey(blurs) ==
    /\ input.open
    /\ annotations' = removed(annotations, input, currentColor, lineWidth, blurs)
    /\ pixels' = IF annotations' # annotations
                 THEN redraw(annotations', bgComplete) ELSE pixels
    /\ input' = NoInput
    /\ begun' = NoGesture
    /\ lastOp' = "escape"
    /\ flattened' = NoOutput
    /\ UNCHANGED <<currentTool, currentColor, lineWidth, isDrawing, currentPoints,
                   imageData, bgComplete, nextShape, sets, otherThanCanvas>>

\* the text field loses the focus (a click elsewhere): commit()
Blur ==
    /\ input.open
    /\ annotations' = commit(annotations, input, currentColor, lineWidth)
    /\ pixels' = IF annotations' # annotations
                 THEN redraw(annotations', bgComplete) ELSE pixels
    /\ input' = NoInput
    /\ begun' = NoGesture
    /\ lastOp' = "blur"
    /\ flattened' = NoOutput
    /\ UNCHANGED <<currentTool, currentColor, lineWidth, isDrawing, currentPoints,
                   imageData, bgComplete, nextShape, sets, otherThanCanvas>>

\* undo(): this.annotations.pop(); this.redraw()
Undo ==
    /\ annotations' = afterPop(annotations)
    /\ pixels' = redraw(annotations', bgComplete)
    /\ lastOp' = "undo"
    /\ flattened' = NoOutput
    /\ UNCHANGED <<currentTool, currentColor, lineWidth, isDrawing, currentPoints,
                   imageData, bgComplete, nextShape, input, begun,
                   sets, otherThanCanvas>>

\* clear(): this.annotations = []; this.redraw()
Clear ==
    /\ annotations' = <<>>
    /\ pixels' = redraw(annotations', bgComplete)
    /\ lastOp' = "clear"
    /\ flattened' = NoOutput
    /\ UNCHANGED <<currentTool, currentColor, lineWidth, isDrawing, currentPoints,
                   imageData, bgComplete, nextShape, input, begun,
                   sets, otherThanCanvas>>

\* a faulty variant of ToDataUrl: the surface is drawn afresh before it is read
ToDataUrl_Redrawing ==
    /\ Len(flattened) < MaxFlattens
    /\ pixels' = redraw(annotations, bgComplete)
    /\ flattened' = Append(flattened, toDataURL(pixels'))
    /\ lastOp' = "toDataUrl"
    /\ UNCHANGED <<annotations, currentTool, currentColor, lineWidth, isDrawing,
                   currentPoints, imageData, bgComplete, nextShape, input, begun,
                   sets, otherThanCanvas>>

\* toDataUrl(): return this.canvas.toDataURL('image/png')
ToDataUrl ==
    /\ Len(flattened) < MaxFlattens
    /\ flattened' = Append(flattened, toDataURL(pixels))
    /\ lastOp' = "toDataUrl"
    /\ UNCHANGED <<annotations, pixels, currentTool, currentColor, lineWidth,
                   isDrawing, currentPoints, imageData, bgComplete, nextShape,
                   input, begun, sets, otherThanCanvas>>

CanvasInit ==
    /\ TurnStart(DEFAULT_SETTINGS) /\ DecodeIdle /\ CaptureIdle /\ RecordIdle
    /\ CanvasBuilt /\ NoPainting /\ NoSelector /\ NoRequest /\ ServicesIdle

\* the drawing tools, the mouse, undo, clear, the image load and the export
CanvasNext ==
    \/ BgLoaded
    \/ \E tool \in DrawingTools \cup {"pointer"} : SetTool(tool)
    \/ MouseDown
    \/ MouseMove
    \/ MouseUp
    \/ Undo
    \/ Clear
    \/ ToDataUrl

\* the mouse, the toolbar and the image load on one canvas in every order,
\* with the colour and the width it was built with
SpecCanvas == CanvasInit /\ [][CanvasNext]_vars

\* every tool, colour and width, the mouse, the text field and undo
ToolsNext ==
    \/ \E tool \in Tools : SetTool(tool)
    \/ \E color \in Colors : SetColor(color)
    \/ \E w \in LineWidths : SetLineWidth(w)
    \/ MouseDown
    \/ MouseMove
    \/ MouseUp
    \/ \E value \in InputValues : TypeText(value)
    \/ \E blurs \in BOOLEAN : EnterKey(blurs)
    \/ \E blurs \in BOOLEAN : EscapeKey(blurs)
    \/ Blur
    \/ Undo

\* the toolbar, the mouse and the keyboard on one canvas in every order, its
\* background image not yet loaded
SpecTools == CanvasInit /\ [][ToolsNext]_vars

\* C20: undo() removes exactly the most recently committed shape and leaves
\* the earlier shapes and their order unchanged; on an empty log it changes
\* nothing; after undo() the surface is the rendering of the log without its
\* last element (a text shape that has no text renders as nothing).
C20_UndoRemovesLastShapeAndRerenders ==
    [][lastOp' = "undo" =>
          /\ annotations = <<>> => annotations' = <<>>
          /\ annotations # <<>> =>
                 annotations' = SubSeq(annotations, 1, Len(annotations) - 1)
          /\ pixels' = redraw(annotations', bgComplete')
          /\ pixels'.drawn =
                 SelectSeq([i \in 1..Len(annotations') |-> annotations[i]],
                           LAMBDA sh : sh.type # "text" \/ sh.text # NoText)]_vars

\* C20 happens: of two committed shapes undo() has removed the second and the
\* first is still in the log and on the surface
C20_Witness_UndoneSecondOfTwo ==
    /\ lastOp = "undo"
    /\ nextShape = 3
    /\ Len(annotations) = 1
    /\ annotations[1].id = 1
    /\ pixels.drawn = annotations

\* C21: whenever toDataUrl() is called, its output is the background plus
\* exactly the committed shapes in commit order: no preview of a stroke under
\* way, and no shape that was undone or cleared. (The background is taken as
\* the canvas has it: the image may not have loaded yet.)
C21_FlattenShowsCommittedShapesOnly ==
    \A i \in 1..Len(flattened) :
        flattened[i] = toDataURL(redraw(annotations, bgComplete))

\* C22: toDataUrl() called twice with no operation in between returns the
\* same output, and a call changes neither the committed log nor the surface
\* nor the tool state.
C22_FlattenIdempotentAndReadOnly ==
    [][lastOp' = "toDataUrl" =>
          /\ \A i, j \in 1..Len(flattened') : flattened'[i] = flattened'[j]
          /\ UNCHANGED <<annotations, pixels, imageData, bgComplete>>
          /\ UNCHANGED <<currentTool, currentColor, lineWidth, isDrawing,
                         currentPoints, input>>]_vars

\* C22 happens: toDataUrl() has run twice in a row, on a canvas with a shape
\* committed and the preview of a stroke under way on its surface
C22_Witness_FlattenedTwiceOverPreview ==
    /\ lastOp = "toDataUrl"
    /\ Len(flattened) = 2
    /\ annotations # <<>>
    /\ isDrawing
    /\ pixels # redraw(annotations, bgComplete)

\* the operations C23 says leave the committed log alone
LogKeepers == {"setTool", "setColor", "setLineWidth", "mousedown", "mousemove"}

C24_ShapeKeepsStyleOfGestureStart ==
    [][lastOp' = "mouseup" =>
          /\ annotations'[Len(annotations')].type = begun.tool
          /\ annotations'[Len(annotations')].color = begun.color
          /\ annotations'[Len(annotations')].lineWidth = begun.lineWidth]_vars

\* C25: a gesture started with the text tool captures no drag and commits at
\* most one shape: one single-point text shape with the trimmed text when
\* non-empty text is confirmed, none when the text is empty or the input is
\* cancelled with Escape.
C25_TextGestureCommitsAtMostOneShape ==
    [][/\ (lastOp' = "mousedown" /\ currentTool = "text") => ~isDrawing'
       /\ (lastOp' \in {"enter", "blur"} /\ trim(input.value) # <<>>) =>
              annotations' =
                  Append(annotations,
                         [type |-> "text", id |-> input.id, points |-> 1,
                          color |-> currentColor, lineWidth |-> lineWidth,
                          text |-> trim(input.value)])
       /\ (lastOp' \in {"enter", "blur"} /\ trim(input.value) = <<>>) =>
              annotations' = annotations
       /\ lastOp' = "escape" => annotations' = annotations]_vars

\* C26: every committed shape has one of the five kinds (never the pointer)
\* and at least one point, and every committed arrow, rectangle or highlight
\* has at least two points.
C26_CommittedShapesHaveKindAndPoints ==
    \A i \in 1..Len(annotations) :
        /\ annotations[i].type \in Kinds
        /\ annotations[i].points >= 1
        /\ annotations[i].type \in TwoPointKinds => annotations[i].points >= 2

\* C26 happens: the log holds a rectangle committed by a click without any
\* pointer move and a text label
C26_Witness_ClickRectangleAndLabel ==
    /\ \E i \in 1..Len(annotations) :
           annotations[i].type = "rectangle" /\ annotations[i].points = 2
    /\ \E i \in 1..Len(annotations) :
           annotations[i].type = "text" /\ annotations[i].points = 1

\* C27: a committed shape has a text if and only if its kind is the text
\* label: every text shape carries a non-empty text and no other shape
\* carries one.
C27_TextIffTextKind ==
    \A i \in 1..Len(annotations) :
        (annotations[i].text # NoText) <=> (annotations[i].type = "text")

-----------------------------------------------------------------------------
\* drawShape(type, points, color, lineWidth, final, text) on its own: the
\* calls it makes on the canvas context, with points as coordinates.

\* points of one shape
MaxPoints == 3

\* three places on the canvas
Spots == {[x |-> 0, y |-> 0], [x |-> 2, y |-> 1], [x |-> 1, y |-> 3]}

\* the point sequences of at least one and up to MaxPoints points
PointSeqs == UNION {[1..n -> Spots] : n \in 1..MaxPoints}

\* a faulty variant of endOf: the second point is taken for the last
endOf_Second(points) == points[2]

\* const end = points[points.length - 1]
endOf(points) == points[Len(points)]

\* Math.atan2(dy, dx), kept as written
atan2(dy, dx) == <<"atan2", dy, dx>>

\* the canvas calls of drawShape, in order; none when the switch breaks early
strokes(type, points, color, width, text) ==
    CASE type = "rectangle" ->
           IF Len(points) < 2 THEN <<>>
           ELSE <<<<"strokeRect", color, width, points[1].x, points[1].y,
                    endOf(points).x - points[1].x,
                    endOf(points).y - points[1].y>>>>
      [] type = "highlight" ->
           IF Len(points) < 2 THEN <<>>
           ELSE <<<<"fillRect", color, "alpha 0.3", points[1].x, points[1].y,
                    endOf(points).x - points[1].x,
                    endOf(points).y - points[1].y>>>>
      [] type = "arrow" ->
           IF Len(points) < 2 THEN <<>>
           ELSE <<<<"line", color, width, points[1], endOf(points)>>,
                  <<"head", color, endOf(points),
                    atan2(endOf(points).y - points[1].y,
                          endOf(points).x - points[1].x),
                    15 + width * 2>>>>
      [] type = "freehand" ->
           IF Len(points) < 2 THEN <<>>
           ELSE <<<<"path", color, width, points>>>>
      [] type = "text" ->
           IF text = NoText \/ Len(points) < 1 THEN <<>>
           ELSE <<<<"label", color, 18 + width * 2, points[1], text>>>>
      [] OTHER -> <<>>

\* two shapes of one kind, colour and width are drawn, each on a clean canvas
DrawBoth ==
    /\ painting.out = <<>>
    /\ painting' =
           [painting EXCEPT !.out =
               <<strokes(painting.type, painting.a, painting.color,
                         painting.lineWidth, painting.text),
                 strokes(painting.type, painting.b, painting.color,
                         painting.lineWidth, painting.text)>>]
    /\ UNCHANGED <<selection, request, otherThanCalls>>

DrawInit ==
    /\ TurnStart(DEFAULT_SETTINGS) /\ DecodeIdle /\ CaptureIdle /\ RecordIdle
    /\ CanvasBuilt /\ NoSelector /\ NoRequest /\ ServicesIdle
    /\ painting \in [type : Kinds, color : Colors, lineWidth : LineWidths,
                     a : PointSeqs, b : PointSeqs, text : {<<"a">>},
                     out : {<<>>}]

DrawNext == DrawBoth

\* drawShape applied to every pair of point sequences
SpecDraw == DrawInit /\ [][DrawNext]_vars

\* C28: for arrow, rectangle and highlight shapes the rendering depends on the
\* first and the last point only: two shapes of the same kind, colour and
\* width whose first and last points agree render identically, whatever
\* points they hold in between. (A shape of these kinds has at least two
\* points: the handlers never pass drawShape fewer, see C26.)
C28_GeometryFromFirstAndLastPoint ==
    (/\ painting.out # <<>>
     /\ painting.type \in TwoPointKinds
     /\ Len(painting.a) >= 2 /\ Len(painting.b) >= 2
     /\ painting.a[1] = painting.b[1]
     /\ painting.a[Len(painting.a)] = painting.b[Len(painting.b)])
    => painting.out[1] = painting.out[2]

\* C28 happens: an arrow of two points and an arrow with a third point off the
\* line in between have been drawn, and both drew something
C28_Witness_ArrowWithMidpoint ==
    /\ painting.out # <<>>
    /\ painting.type = "arrow"
    /\ Len(painting.a) = 2 /\ Len(painting.b) = 3
    /\ painting.a[1] = painting.b[1] /\ painting.a[2] = painting.b[3]
    /\ painting.b[2] \notin {painting.b[1], painting.b[3]}
    /\ painting.a[1] # painting.a[2]
    /\ painting.out[1] # <<>>

-----------------------------------------------------------------------------
\* One RegionSelector: the drag of the mouse over it, the selection box it
\* shows, and what it reported through onSelect and onCancel.

\* if (w > 20 && h > 20)
MinSize == 20

\* clientX and clientY of the mouse events
Pixels == {0, 15, 20, 21}

\* the selection box before the first mousedown: display: none
Hidden == <<>>

\* onSelect has not been called
NotSelected == <<>>

\* Math.abs(a - b)
abs(n) == IF n < 0 THEN 0 - n ELSE n

\* Math.min(a, b)
min(a, b) == IF a < b THEN a ELSE b

\* the rectangle between the start of the drag and the mouse
dragged(startX, startY, curX, curY) ==
    [x |-> min(startX, curX), y |-> min(startY, curY),
     w |-> abs(curX - startX), h |-> abs(curY - startY)]

\* the RegionSelector after its constructor
SelectorBuilt ==
    [open |-> TRUE, isSelecting |-> FALSE, startX |-> 0, startY |-> 0,
     box |-> Hidden, released |-> Hidden, selected |-> NotSelected,
     cancelled |-> FALSE, last |-> "new"]

\* mousedown on the selector
RsMouseDown(x, y) ==
    /\ selection.open
    /\ selection' = [selection EXCEPT !.isSelecting = TRUE,
                                      !.startX = x, !.startY = y,
                                      !.box = dragged(x, y, x, y),
                                      !.last = "mousedown"]
    /\ UNCHANGED <<painting, request, otherThanCalls>>

\* mousemove while selecting: updateSelection
RsMouseMove(x, y) ==
    /\ selection.open /\ selection.isSelecting
    /\ selection' = [selection EXCEPT
                        !.box = dragged(selection.startX, selection.startY, x, y),
                        !.last = "mousemove"]
    /\ UNCHANGED <<painting, request, otherThanCalls>>

\* mouseup while selecting: a region wider and higher than MinSize destroys the
\* selector and goes to onSelect
RsMouseUp(x, y) ==
    /\ selection.open /\ selection.isSelecting
    /\ LET r == dragged(selection.startX, selection.startY, x, y)
           fires == r.w > MinSize /\ r.h > MinSize
       IN selection' = [selection EXCEPT
                           !.isSelecting = FALSE,
                           !.released = r,
                           !.open = ~fires,
                           !.selected = IF fires THEN r ELSE @,
                           !.last = "mouseup"]
    /\ UNCHANGED <<painting, request, otherThanCalls>>

\* keydown Escape: destroy(), onCancel()
RsEscape ==
    /\ selection.open
    /\ selection' = [selection EXCEPT !.open = FALSE, !.cancelled = TRUE,
                                      !.last = "escape"]
    /\ UNCHANGED <<painting, request, otherThanCalls>>

RegionInit ==
    /\ TurnStart(DEFAULT_SETTINGS) /\ DecodeIdle /\ CaptureIdle /\ RecordIdle
    /\ CanvasBuilt /\ NoPainting /\ NoRequest /\ ServicesIdle
    /\ selection = SelectorBuilt

RegionNext ==
    \/ \E x, y \in Pixels : RsMouseDown(x, y)
    \/ \E x, y \in Pixels : RsMouseMove(x, y)
    \/ \E x, y \in Pixels : RsMouseUp(x, y)
    \/ RsEscape

\* drags and Escape on one region selector in every order
SpecRegion == RegionInit /\ [][RegionNext]_vars

\* C29: on pointer release the selector fires onSelect if and only if the
\* dragged rectangle is at least 20 wide and at least 20 high, and a rejected
\* drag leaves the selector open.
C29_SelectFiresFromMinimumSize ==
    selection.last = "mouseup" =>
        /\ (selection.selected # NotSelected) <=>
               (selection.released.w >= MinSize /\ selection.released.h >= MinSize)
        /\ selection.selected = NotSelected => selection.open

-----------------------------------------------------------------------------
\* The request a vendor connector builds from the conversation history.
\* A history message is [role, content, screenshot]; a screenshot is
\* [present, dataUrl, annotatedDataUrl]; an image URL is the data URL
\* [mime, data] ("data:<mime>;base64,<data>").

\* messages of one history
MaxHistory == 2

\* the connectors createConnector returns
VendorConnectors == Connectors \ {"proxy"}

\* a string that is undefined or empty
NoUrl == [mime |-> "", data |-> ""]

\* the capture as taken, and the canvas's toDataUrl() of it
RawUrl == [mime |-> "image/jpeg", data |-> "raw"]
FlatUrl == [mime |-> "image/png", data |-> "flat"]

Screenshots ==
    {[present |-> FALSE, dataUrl |-> NoUrl, annotatedDataUrl |-> NoUrl],
     [present |-> TRUE, dataUrl |-> RawUrl, annotatedDataUrl |-> NoUrl],
     [present |-> TRUE, dataUrl |-> RawUrl, annotatedDataUrl |-> FlatUrl]}

HistoryMessages ==
    [role : {"user", "assistant"}, content : {"", "hi"}, screenshot : Screenshots]

Histories == UNION {[1..n -> HistoryMessages] : n \in 0..MaxHistory}

\* extractBase64(dataUrl): the two groups of the match; a string that is not
\* a data URL is passed whole as image/png
extractBase64(dataUrl) ==
    IF dataUrl.mime # "" THEN [base64 |-> dataUrl.data, mimeType |-> dataUrl.mime]
    ELSE [base64 |-> dataUrl.data, mimeType |-> "image/png"]

\* a faulty variant of imgSrc: the capture as taken is always the one sent
imgSrc_Raw(shot) == shot.dataUrl

\* msg.screenshot.annotatedDataUrl || msg.screenshot.dataUrl
imgSrc(shot) ==
    IF shot.annotatedDataUrl # NoUrl THEN shot.annotatedDataUrl ELSE shot.dataUrl

\* msg.content || 'Analyze this screenshot.'
textOf(msg) == IF msg.content # "" THEN msg.content ELSE "Analyze this screenshot."

\* msg.role === 'user' && msg.screenshot
withImage(msg) == msg.role = "user" /\ msg.screenshot.present

\* one element of ClaudeConnector's apiMessages
ClaudeMessage(msg) ==
    [role |-> msg.role,
     content |->
        (IF withImage(msg)
         THEN <<<<"image", "base64",
                  extractBase64(imgSrc(msg.screenshot)).mimeType,
                  extractBase64(imgSrc(msg.screenshot)).base64>>>>
         ELSE <<>>) \o <<<<"text", textOf(msg)>>>>]

\* one element of OpenAIConnector's and of GrokConnector's apiMessages
OpenAIMessage(msg) ==
    [role |-> msg.role,
     content |->
        (IF withImage(msg)
         THEN <<<<"image_url", imgSrc(msg.screenshot), "high">>>>
         ELSE <<>>) \o <<<<"text", textOf(msg)>>>>]

\* one element of GeminiConnector's contents
GeminiContent(msg) ==
    [role |-> IF msg.role = "assistant" THEN "model" ELSE "user",
     parts |->
        (IF withImage(msg)
         THEN <<<<"inline_data",
                  extractBase64(imgSrc(msg.screenshot)).mimeType,
                  extractBase64(imgSrc(msg.screenshot)).base64>>>>
         ELSE <<>>) \o <<<<"text", textOf(msg)>>>>]

\* one element of MistralConnector's apiMessages
MistralMessage(msg) ==
    [role |-> msg.role,
     content |->
        (IF withImage(msg)
         THEN <<<<"image_url", imgSrc(msg.screenshot)>>>>
         ELSE <<>>) \o <<<<"text", textOf(msg)>>>>]

\* one element of OllamaConnector's ollamaMessages
OllamaMessage(msg) ==
    [role |-> msg.role, content |-> textOf(msg),
     images |-> IF withImage(msg)
                THEN <<extractBase64(imgSrc(msg.screenshot)).base64>>
                ELSE <<>>]

\* { role: 'system', content: sysContent }
SystemMessage == [role |-> "system", content |-> "sysContent"]

\* the messages of the request body of each connector
bodyMessages(c, messages) ==
    CASE c = "claude" -> [i \in 1..Len(messages) |-> ClaudeMessage(messages[i])]
      [] c = "gemini" -> [i \in 1..Len(messages) |-> GeminiContent(messages[i])]
      [] c \in {"openai", "grok"} ->
           <<SystemMessage>> \o [i \in 1..Len(messages) |-> OpenAIMessage(messages[i])]
      [] c = "mistral" ->
           <<SystemMessage>> \o [i \in 1..Len(messages) |-> MistralMessage(messages[i])]
      [] c = "ollama" ->
           <<SystemMessage>> \o [i \in 1..Len(messages) |-> OllamaMessage(messages[i])]

\* send(messages, ...) up to its fetch: the request body is built
BuildRequest ==
    /\ request.body = <<>>
    /\ request' = [request EXCEPT
                      !.body = <<bodyMessages(request.connector, request.messages)>>]
    /\ UNCHANGED <<painting, selection, otherThanCalls>>

RequestInit ==
    /\ TurnStart(DEFAULT_SETTINGS) /\ DecodeIdle /\ CaptureIdle /\ RecordIdle
    /\ CanvasBuilt /\ NoPainting /\ NoSelector /\ ServicesIdle
    /\ request \in [connector : VendorConnectors, messages : Histories,
                    body : {<<>>}]

RequestNext == BuildRequest

\* every vendor connector builds its request from every history
SpecRequest == RequestInit /\ [][RequestNext]_vars

\* the request's entries for the history: all but the system message
Sent ==
    IF request.connector \in {"claude", "gemini"} THEN request.body[1]
    ELSE Tail(request.body[1])

\* the images of one entry of the request, as image URLs; Ollama's entry
\* carries the data alone
ImagesIn(entry) ==
    CASE request.connector = "claude" ->
           [k \in 1..(Len(entry.content) - 1) |->
               [mime |-> entry.content[k][3], data |-> entry.content[k][4]]]
      [] request.connector = "gemini" ->
           [k \in 1..(Len(entry.parts) - 1) |->
               [mime |-> entry.parts[k][2], data |-> entry.parts[k][3]]]
      [] request.connector = "ollama" ->
           [k \in 1..Len(entry.images) |-> entry.images[k]]
      [] OTHER ->
           [k \in 1..(Len(entry.content) - 1) |-> entry.content[k][2]]

\* the text of one entry of the request
TextIn(entry) ==
    CASE request.connector = "gemini" -> entry.parts[Len(entry.parts)][2]
      [] request.connector = "ollama" -> entry.content
      [] OTHER -> entry.content[Len(entry.content)][2]

-----------------------------------------------------------------------------
\* More claims about the turn loop

\* the turn's conversation uses the local provider, enabled and without key
LocalKeyless(t) ==
    /\ ConvProvider(task[t].conv) = "ollama"
    /\ settingsDb["ollama"].enabled /\ settingsDb["ollama"].apiKey = ""

\* C31: the local provider needs no API key: a send on a conversation whose
\* provider is ollama, enabled and with an empty apiKey, issues the provider
\* call once the user message is saved and never ends as a configuration
\* error.
C31_LocalProviderNeedsNoKey ==
    \A t \in Tasks :
        (LocalKeyless(t) /\ PastUserSave(t)) =>
            /\ task[t].outcome # "config"
            /\ t \in issued

-----------------------------------------------------------------------------
\* The ai-proxy edge function: the requests of one signed-in user on one UTC
\* day.  The handler is cut at its awaits: auth.getUser(), the count query,
\* the provider fetch, the insert into proxy_usage.

\* const DAILY_QUOTA = 10
DAILY_QUOTA == 10

\* requests the user sends in one run, on top of the ones already served
MaxRequests == 2

\* what a request can carry
RequestKinds == {"ok", "noAuth", "noMessages", "noKey"}

\* a call of the handler: where it is, what it was asked, the count it read
\* and the status it answered with (0: none yet)
Handling(kind) == [pc |-> "getUser", kind |-> kind, count |-> 0, status |-> 0]

\* return new Response(..., { status })
Responded(h, status) == [h EXCEPT !.pc = "done", !.status = status]

\* (count || 0) >= DAILY_QUOTA
overQuota(count) == count >= DAILY_QUOTA

\* routeToProvider(...) has issued its fetch
routed(n) == n + 1

\* a POST arrives: the Authorization header is read and auth.getUser() awaited
ProxyReceive(kind) ==
    /\ Len(handler) < MaxRequests
    /\ handler' = Append(handler,
                         IF kind = "noAuth" THEN Responded(Handling(kind), 401)
                         ELSE Handling(kind))
    /\ UNCHANGED <<proxy_usage, providerCalls>>
    /\ UNCHANGED <<otherThanProxy, otherThanServices>>

\* getUser() resolved with the user: the count query is sent and awaited
ProxyGetUser(r) ==
    /\ r <= Len(handler)
    /\ handler[r].pc = "getUser"
    /\ handler' = [handler EXCEPT ![r].pc = "count"]
    /\ UNCHANGED <<proxy_usage, providerCalls>>
    /\ UNCHANGED <<otherThanProxy, otherThanServices>>

\* the count query resolved: the quota check, req.json(), the checks of the
\* body and of the server's key, then routeToProvider up to its fetch
ProxyCount(r) ==
    /\ r <= Len(handler)
    /\ handler[r].pc = "count"
    /\ LET h == [handler[r] EXCEPT !.count = proxy_usage]
       IN CASE overQuota(h.count) ->
                 /\ handler' = [handler EXCEPT ![r] = Responded(h, 429)]
                 /\ UNCHANGED providerCalls
            [] ~overQuota(h.count) /\ h.kind = "noMessages" ->
                 /\ handler' = [handler EXCEPT ![r] = Responded(h, 400)]
                 /\ UNCHANGED providerCalls
            [] ~overQuota(h.count) /\ h.kind = "noKey" ->
                 /\ handler' = [handler EXCEPT ![r] = Responded(h, 503)]
                 /\ UNCHANGED providerCalls
            [] OTHER ->
                 /\ handler' = [handler EXCEPT ![r] = [h EXCEPT !.pc = "fetch"]]
                 /\ providerCalls' = routed(providerCalls)
    /\ UNCHANGED proxy_usage
    /\ UNCHANGED <<otherThanProxy, otherThanServices>>

\* the provider answered (with any HTTP status): the usage row is inserted
ProxyFetchResolves(r) ==
    /\ r <= Len(handler)
    /\ handler[r].pc = "fetch"
    /\ handler' = [handler EXCEPT ![r].pc = "insert"]
    /\ UNCHANGED <<proxy_usage, providerCalls>>
    /\ UNCHANGED <<otherThanProxy, otherThanServices>>

\* the provider could not be reached: fetch rejects, the catch answers 500
ProxyFetchRejects(r) ==
    /\ r <= Len(handler)
    /\ handler[r].pc = "fetch"
    /\ handler' = [handler EXCEPT ![r] = Responded(@, 500)]
    /\ UNCHANGED <<proxy_usage, providerCalls>>
    /\ UNCHANGED <<otherThanProxy, otherThanServices>>

\* the insert resolved, its result is not looked at: the provider's body is
\* streamed back; stored tells whether the database took the row
ProxyInsert(r, stored) ==
    /\ r <= Len(handler)
    /\ handler[r].pc = "insert"
    /\ proxy_usage' = IF stored THEN proxy_usage + 1 ELSE proxy_usage
    /\ handler' = [handler EXCEPT ![r] = Responded(@, 200)]
    /\ UNCHANGED providerCalls
    /\ UNCHANGED <<otherThanProxy, otherThanServices>>

\* the day so far: requests served one after the other, each provider call
\* with its usage row
ProxyInit ==
    /\ TurnStart(DEFAULT_SETTINGS) /\ DecodeIdle /\ CaptureIdle /\ RecordIdle
    /\ CanvasBuilt /\ NoPainting /\ NoSelector /\ NoRequest /\ SyncBuilt
    /\ PullIdle
    /\ proxy_usage \in 0..DAILY_QUOTA
    /\ providerCalls = proxy_usage
    /\ handler = <<>>

ProxyNext ==
    \/ \E kind \in RequestKinds : ProxyReceive(kind)
    \/ \E r \in 1..MaxRequests : ProxyGetUser(r)
    \/ \E r \in 1..MaxRequests : ProxyCount(r)
    \/ \E r \in 1..MaxRequests : ProxyFetchResolves(r)
    \/ \E r \in 1..MaxRequests : ProxyFetchRejects(r)
    \/ \E r \in 1..MaxRequests, stored \in BOOLEAN : ProxyInsert(r, stored)

\* the edge function under concurrent requests of one user
SpecProxy == ProxyInit /\ [][ProxyNext]_vars

\* C32: the proxy makes at most DAILY_QUOTA provider calls per user and UTC
\* day, for every interleaving of the user's requests and whether or not a
\* relayed call succeeds; a request that arrives when the quota is used up is
\* answered 429 without a provider call.
C32_AtMostDailyQuotaProviderCalls ==
    /\ providerCalls <= DAILY_QUOTA
    /\ \A r \in 1..Len(handler) :
          (handler[r].pc \in {"fetch", "insert"} \/ handler[r].status = 200)
              => handler[r].count < DAILY_QUOTA

-----------------------------------------------------------------------------
\* Claims about turns that overlap with other events of their surface

\* C33: the assistant message of a turn is appended to the conversation the
\* turn's user message was sent in, also when another conversation is
\* selected (setConversation) while the provider call is streaming.
C33_AssistantMessageInTurnsConversation ==
    \A t \in Tasks : \A c \in Convs :
        MsgsOf(c, t, "assistant") # {} => c = task[t].conv

\* no call of sendMessage is running on the surface
Quiet(surface) ==
    \A t \in Tasks : task[t].surface = surface => TurnOver(t)

\* C34: the streaming guard is always released: once every turn of a surface
\* is over (success, configuration error, connector error, conversation
\* deselected or switched during streaming) isStreaming is false again.  No
\* other code resets the flag, so a flag that is still set then stays set.
C34_StreamingGuardReleased ==
    /\ Quiet("main") => ~cv_isStreaming
    /\ Quiet("overlay") => ~ov_isStreaming

\* the finished call of sendMessage for turn t passed its user message to
\* addMessage (the overlay returns before that when the key is missing)
UserSaved(t) ==
    \/ task[t].outcome \in {"completed", "failed"}
    \/ task[t].surface = "main" /\ task[t].outcome = "config"

\* the finished call passed an assistant message to addMessage (the overlay
\* saves none after a failed call)
AssistantSaved(t) ==
    \/ task[t].outcome = "completed"
    \/ task[t].surface = "main" /\ task[t].outcome \in {"failed", "config"}

\* C35: conversationStore.addMessage loses no update: once the calls of
\* sendMessage and the saves they started have completed, every message that
\* went through addMessage is in the persisted conversation it was added to.
C35_AddMessageLosesNoUpdate ==
    \A t \in Tasks :
        (Quiet(task[t].surface) /\ task[t].pc = "done") =>
            /\ UserSaved(t) => Cardinality(Persisted(t, "user")) >= 1
            /\ AssistantSaved(t) => Cardinality(Persisted(t, "assistant")) >= 1

-----------------------------------------------------------------------------
\* SyncService: the sync queue of one signed-in user and one conversation's
\* rows in the cloud.  processQueue is cut at its awaits of executeSyncOp,
\* executeSyncOp at its awaits of the cloud queries.

\* pushConversation / deleteConversationCloud calls in one run
MaxOps == 2
\* executeSyncOp calls that fail in one run
MaxFailures == 1

\* { type: 'conversation', action, data | id }: n numbers the calls, msgs is
\* data.messages.length
SyncOperation(n, action, msgs) == [n |-> n, action |-> action, msgs |-> msgs]

\* a call of processQueue takes operations only after a push or a failure
MaxRuns == MaxOps + MaxFailures

\* how an awaited cloud query can end: done, resolved with { error }, rejected
Outcomes == {"ok", "error", "throws"}

\* the query executeSyncOp awaits first for an operation
firstQuery(op) == IF op.action = "upsert" THEN "conversations" ELSE "delete"

\* a call of processQueue that holds queue, awaiting the query of its head
Running(queue) == [queue |-> queue, query |-> firstQuery(Head(queue))]

\* a call of processQueue that has returned
Returned == [queue |-> <<>>, query |-> "none"]

\* processQueue() up to its first await; gives <<syncQueue, syncRuns>>
processQueue(queue) ==
    IF ~userId \/ queue = <<>> THEN <<queue, syncRuns>>
    ELSE <<(<<>>), Append(syncRuns, Running(queue))>>

\* authService reports signed_in: userId is set and pullFromCloud starts
SignIn ==
    /\ ~userId
    /\ userId' = TRUE
    /\ pulling' = TRUE
    /\ UNCHANGED <<syncQueue, syncRuns, cloudConv, pushedOps, applied, failures>>
    /\ UNCHANGED <<otherThanSync, otherThanServices>>

\* pullFromCloud after its pulls: await this.processQueue()
PullProcessQueue ==
    /\ pulling
    /\ pulling' = FALSE
    /\ syncQueue' = processQueue(syncQueue)[1]
    /\ syncRuns' = processQueue(syncQueue)[2]
    /\ UNCHANGED <<userId, cloudConv, pushedOps, applied, failures>>
    /\ UNCHANGED <<otherThanSync, otherThanServices>>

\* pushConversation(conversation) / deleteConversationCloud(id): enqueue, then
\* processQueue up to its first await
Push(action, msgs) ==
    /\ Len(pushedOps) < MaxOps
    \* a delete carries the id only
    /\ action = "delete" => msgs = 0
    /\ LET op == SyncOperation(Len(pushedOps) + 1, action, msgs)
       IN /\ pushedOps' = Append(pushedOps, op)
          /\ syncQueue' = processQueue(Append(syncQueue, op))[1]
          /\ syncRuns' = processQueue(Append(syncQueue, op))[2]
    /\ UNCHANGED <<userId, pulling, cloudConv, applied, failures>>
    /\ UNCHANGED <<otherThanSync, otherThanServices>>

\* the loop of processQueue goes to the next operation, or ends
next(run) ==
    IF Tail(run.queue) = <<>> THEN Returned ELSE Running(Tail(run.queue))

\* the cloud after the awaited query of op has been executed
executed(op, query) ==
    CASE query = "conversations" ->
           [present |-> TRUE, v |-> op.n,
            msgs |-> IF cloudConv.present THEN cloudConv.msgs ELSE 0]
      [] query = "messages" -> [cloudConv EXCEPT !.msgs = op.msgs]
      [] query = "delete" -> Absent

\* the query that run r awaits settles
QuerySettles(r, outcome) ==
    /\ r <= Len(syncRuns)
    /\ syncRuns[r].queue # <<>>
    /\ outcome # "ok" => failures < MaxFailures
    \* a message row needs its conversation row
    /\ (outcome = "ok" /\ syncRuns[r].query = "messages") => cloudConv.present
    /\ LET run == syncRuns[r]
           op == Head(run.queue)
           more == run.query = "conversations" /\ op.msgs > 0
       IN CASE outcome = "ok" /\ more ->
                 /\ cloudConv' = executed(op, run.query)
                 /\ syncRuns' = [syncRuns EXCEPT ![r].query = "messages"]
                 /\ UNCHANGED <<syncQueue, applied, failures>>
            [] outcome = "ok" /\ ~more ->
                 /\ cloudConv' = executed(op, run.query)
                 /\ syncRuns' = [syncRuns EXCEPT ![r] = next(run)]
                 /\ applied' = Append(applied, op.n)
                 /\ UNCHANGED <<syncQueue, failures>>
            [] outcome = "error" /\ more ->
                 \* the result is not looked at: the messages are sent next
                 /\ syncRuns' = [syncRuns EXCEPT ![r].query = "messages"]
                 /\ failures' = failures + 1
                 /\ UNCHANGED <<syncQueue, cloudConv, applied>>
            [] outcome = "error" /\ ~more ->
                 /\ syncRuns' = [syncRuns EXCEPT ![r] = next(run)]
                 /\ failures' = failures + 1
                 /\ UNCHANGED <<syncQueue, cloudConv, applied>>
            [] outcome = "throws" ->
                 \* catch: this.syncQueue.push(op)
                 /\ syncQueue' = Append(syncQueue, op)
                 /\ syncRuns' = [syncRuns EXCEPT ![r] = next(run)]
                 /\ failures' = failures + 1
                 /\ UNCHANGED <<cloudConv, applied>>
    /\ UNCHANGED <<userId, pulling, pushedOps>>
    /\ UNCHANGED <<otherThanSync, otherThanServices>>

SyncInit ==
    /\ TurnStart(DEFAULT_SETTINGS) /\ DecodeIdle /\ CaptureIdle /\ RecordIdle
    /\ CanvasBuilt /\ NoPainting /\ NoSelector /\ NoRequest /\ ProxyIdle
    /\ PullIdle
    /\ SyncBuilt

SyncNext ==
    \/ SignIn
    \/ PullProcessQueue
    \/ \E action \in {"upsert", "delete"}, msgs \in {0, 1} : Push(action, msgs)
    \/ \E r \in 1..MaxRuns, outcome \in Outcomes : QuerySettles(r, outcome)

\* the sync queue under pushes, sign-in and cloud queries that fail
SpecSync == SyncInit /\ [][SyncNext]_vars

\* the operations a call of processQueue still holds
Held == UNION {{syncRuns[r].queue[k] : k \in 1..Len(syncRuns[r].queue)} :
                  r \in 1..Len(syncRuns)}

\* C36: no sync operation is lost: every operation passed to enqueue has been
\* executed by the cloud, or is in the sync queue, or is held by a running
\* processQueue, for every interleaving of pushes and queue processing, while
\* signed out and after a failed execution.
C36_NoSyncOperationLost ==
    \A i \in 1..Len(pushedOps) :
        \/ \E k \in 1..Len(applied) : applied[k] = pushedOps[i].n
        \/ \E k \in 1..Len(syncQueue) : syncQueue[k] = pushedOps[i]
        \/ pushedOps[i] \in Held

\* C37: sync operations on one record take effect in the cloud in the order
\* they were enqueued, and when all have been executed and the last one
\* enqueued is the delete, the conversation is not in the cloud.
C37_OperationsTakeEffectInOrder ==
    /\ \A j, k \in 1..Len(applied) : j < k => applied[j] < applied[k]
    /\ (/\ pushedOps # <<>>
        /\ Len(applied) = Len(pushedOps)
        /\ pushedOps[Len(pushedOps)].action = "delete") => ~cloudConv.present

-----------------------------------------------------------------------------
\* SyncService.pullFromCloud over the local stores, with one project and one
\* conversation in the cloud, which do not change.  The call is cut at its
\* awaits; the project store is touched by nothing else here, so the project
\* half of the pull is one step.

\* pullFromCloud calls in one run
MaxPulls == 2
\* messages appended locally in one run
MaxAdds == 1

\* the rows of the cloud tables
CloudProject == [id |-> "P", name |-> "cloud", updated_at |-> 2]
CloudConversation == [id |-> "C", title |-> "cloud", updated_at |-> 2]
CloudMessages == <<"m1">>

\* the ids generateId() returns, in order
generateId(n) == <<"id1", "id2", "id3", "id4", "id5", "id6", "id7", "id8">>[n]

\* the stored record with key k, if any: localProjects.find(p => p.id === k)
found(recs, k) == IF k \in DOMAIN recs THEN <<recs[k]>> ELSE <<>>

\* !local || new Date(cloud.updated_at).getTime() > local.updatedAt
cloudWins(local, updated_at) == local = <<>> \/ updated_at > local[1].updatedAt

\* db.put(store, item): the key is item.id
put(recs, item) == [k \in DOMAIN recs \cup {item.id} |->
                        IF k = item.id THEN item ELSE recs[k]]

\* projectStore.create(mapped)
createProject(id, cp, t) == [id |-> id, name |-> cp.name, updatedAt |-> t]

\* projectStore.update(id, mapped): { ...p, ...updates, updatedAt: Date.now() }
updateProject(p, cp, t) == [p EXCEPT !.name = cp.name, !.updatedAt = t]

\* conversationStore.create(provider, model, projectId)
createConversation(id, t) ==
    [id |-> id, title |-> "New conversation", messages |-> <<>>, updatedAt |-> t]

\* conversationStore.update(id, updates): { ...c, ...updates, updatedAt:
\* Date.now() } with the updates of pullFromCloud (id, title, messages)
updateConversation(c, cc, messages, t) ==
    [c EXCEPT !.id = cc.id, !.title = cc.title, !.messages = messages,
              !.updatedAt = t]

\* pullFromCloud() up to its first await (select on projects)
PullStart ==
    /\ userId /\ ~isSyncing
    /\ pulls < MaxPulls
    /\ isSyncing' = TRUE
    /\ puller' = [NotPulling EXCEPT !.pc = "projects"]
    /\ UNCHANGED <<projects, conversations, now, nextId, pulls, afterFirst, added>>
    /\ UNCHANGED <<otherThanPull, otherThanServices>>

\* the projects arrive: getAll, the loop with projectStore.update or create,
\* then the select on conversations
PullProjects ==
    /\ puller.pc = "projects"
    /\ LET local == found(projects, CloudProject.id)
       IN IF cloudWins(local, CloudProject.updated_at)
          THEN /\ now' = now + 1
               /\ IF local # <<>>
                  THEN /\ projects' = put(projects,
                                          updateProject(projects[CloudProject.id],
                                                        CloudProject, now))
                       /\ UNCHANGED nextId
                  ELSE /\ projects' = put(projects,
                                          createProject(generateId(nextId),
                                                        CloudProject, now))
                       /\ nextId' = nextId + 1
          ELSE UNCHANGED <<projects, now, nextId>>
    /\ puller' = [puller EXCEPT !.pc = "conversations"]
    /\ UNCHANGED <<conversations, isSyncing, pulls, afterFirst, added>>
    /\ UNCHANGED <<otherThanPull, otherThanServices>>

\* the conversations arrive and conversationStore.getAll() resolves: the loop
\* up to its select on messages, or past the loop
PullConversations ==
    /\ puller.pc = "conversations"
    /\ puller' = [puller EXCEPT
          !.localConvs = conversations,
          !.pc = IF cloudWins(found(conversations, CloudConversation.id),
                              CloudConversation.updated_at)
                 THEN "messages" ELSE "settings"]
    /\ UNCHANGED <<projects, conversations, isSyncing, now, nextId, pulls,
                   afterFirst, added>>
    /\ UNCHANGED <<otherThanPull, otherThanServices>>

\* the messages arrive: conversationStore.update(cc.id, ...) up to its get, or
\* conversationStore.create(...) up to its put
PullMessages ==
    /\ puller.pc = "messages"
    /\ IF found(puller.localConvs, CloudConversation.id) # <<>>
       THEN /\ puller' = [puller EXCEPT !.pc = "updateGet",
                                       !.id = CloudConversation.id]
            /\ UNCHANGED <<now, nextId>>
       ELSE /\ puller' = [puller EXCEPT
                  !.pc = "createPut",
                  !.updated = <<createConversation(generateId(nextId), now)>>]
            /\ now' = now + 1
            /\ nextId' = nextId + 1
    /\ UNCHANGED <<projects, conversations, isSyncing, pulls, afterFirst, added>>
    /\ UNCHANGED <<otherThanPull, otherThanServices>>

\* the put of create is done: conversationStore.update(conv.id, { id: cc.id,
\* ... }) up to its get
PullCreatePut ==
    /\ puller.pc = "createPut"
    /\ conversations' = put(conversations, puller.updated[1])
    /\ puller' = [puller EXCEPT !.pc = "updateGet", !.id = puller.updated[1].id,
                                !.updated = <<>>]
    /\ UNCHANGED <<projects, isSyncing, now, nextId, pulls, afterFirst, added>>
    /\ UNCHANGED <<otherThanPull, otherThanServices>>

\* the get of update resolves: the record is merged and put
PullUpdateGet ==
    /\ puller.pc = "updateGet"
    /\ puller' = [puller EXCEPT
          !.pc = "updatePut",
          !.updated = <<updateConversation(conversations[puller.id],
                                           CloudConversation, CloudMessages, now)>>]
    /\ now' = now + 1
    /\ UNCHANGED <<projects, conversations, isSyncing, nextId, pulls, afterFirst,
                   added>>
    /\ UNCHANGED <<otherThanPull, otherThanServices>>

\* the put of update is done: the loop is over
PullUpdatePut ==
    /\ puller.pc = "updatePut"
    /\ conversations' = put(conversations, puller.updated[1])
    /\ puller' = [puller EXCEPT !.pc = "settings", !.updated = <<>>]
    /\ UNCHANGED <<projects, isSyncing, now, nextId, pulls, afterFirst, added>>
    /\ UNCHANGED <<otherThanPull, otherThanServices>>

\* no settings in the cloud, processQueue with an empty queue: isSyncing = false
PullEnd ==
    /\ puller.pc = "settings"
    /\ puller' = NotPulling
    /\ isSyncing' = FALSE
    /\ pulls' = pulls + 1
    /\ afterFirst' = IF pulls = 0 THEN <<projects, conversations>> ELSE afterFirst
    /\ UNCHANGED <<projects, conversations, now, nextId, added>>
    /\ UNCHANGED <<otherThanPull, otherThanServices>>

\* conversationStore.addMessage(id, msg) by a chat surface, the conversation
\* being in the local store
LocalAddMessage ==
    /\ added < MaxAdds
    /\ CloudConversation.id \in DOMAIN conversations
    /\ conversations' = put(conversations,
          [conversations[CloudConversation.id] EXCEPT
              !.messages = Append(@, "m2"), !.updatedAt = now])
    /\ now' = now + 1
    /\ added' = added + 1
    /\ UNCHANGED <<projects, puller, isSyncing, nextId, pulls, afterFirst>>
    /\ UNCHANGED <<otherThanPull, otherThanServices>>

\* what the local stores can hold of the cloud's records before a pull:
\* nothing, an older copy, a newer copy
LocalProjects ==
    {NoRecords} \cup
    {put(NoRecords, [id |-> CloudProject.id, name |-> n, updatedAt |-> t]) :
        n \in {"local"}, t \in {1, 3}}

LocalConversations ==
    {NoRecords} \cup
    {put(NoRecords, [id |-> CloudConversation.id, title |-> "local",
                     messages |-> ms, updatedAt |-> t]) :
        ms \in {<<>>, <<"m1">>}, t \in {1, 3}}

PullInit ==
    /\ TurnStart(DEFAULT_SETTINGS) /\ DecodeIdle /\ CaptureIdle /\ RecordIdle
    /\ CanvasBuilt /\ NoPainting /\ NoSelector /\ NoRequest /\ ProxyIdle
    /\ userId = TRUE /\ pulling = FALSE /\ syncQueue = <<>> /\ syncRuns = <<>>
    /\ cloudConv = Absent /\ pushedOps = <<>> /\ applied = <<>> /\ failures = 0
    /\ projects \in LocalProjects
    /\ conversations \in LocalConversations
    /\ puller = NotPulling
    /\ isSyncing = FALSE
    /\ now = 4
    /\ nextId = 1
    /\ pulls = 0
    /\ afterFirst = <<>>
    /\ added = 0

PullNext ==
    \/ PullStart
    \/ PullProjects
    \/ PullConversations
    \/ PullMessages
    \/ PullCreatePut
    \/ PullUpdateGet
    \/ PullUpdatePut
    \/ PullEnd
    \/ LocalAddMessage

\* pulls of a signed-in user while a chat surface appends messages
SpecPull == PullInit /\ [][PullNext]_vars

\* no pull is running and n or more have returned
Pulled(n) == pulls >= n /\ puller.pc = "idle"

\* C38: after a pull the local store holds exactly one project and one
\* conversation per cloud record, under the cloud record's id, and a second
\* pull from the unchanged cloud leaves the local store as the first left it.
C38_PullIdempotentUnderCloudIds ==
    /\ Pulled(1) =>
          /\ DOMAIN projects = {CloudProject.id}
          /\ DOMAIN conversations = {CloudConversation.id}
    /\ (Pulled(2) /\ added = 0) => <<projects, conversations>> = afterFirst

\* C39: pullFromCloud replaces a local conversation with the cloud copy only
\* if the cloud copy is strictly newer than the local conversation at the
\* moment it is overwritten, so no message appended locally, before or during
\* the pull, is discarded in favour of older cloud state.
C39_OverwriteOnlyWhenCloudNewer ==
    [][(/\ puller.pc = "updatePut" /\ puller'.pc = "settings"
        /\ CloudConversation.id \in DOMAIN conversations
        /\ conversations' # conversations)
          => CloudConversation.updated_at > conversations[CloudConversation.id].updatedAt]_vars

====
